---- MODULE Spec2Model ----
(***************************************************************************)
(* A state-machine model of the agb Game Boy emulation engine: the DMG PPU *)
(* scanline state machine (ppu/dmg_ppu.rs), the timer (timer.rs), the      *)
(* interrupt dispatcher and the EI/DI/HALT/STOP/RETI/LDH instructions      *)
(* (mod.rs, instructions.rs, cpu/interrupts.rs), the OAM DMA controller    *)
(* with the CPU bus gate (oam_dma.rs, mmu.rs), the serial port and its     *)
(* peer channels (serial.rs), the cartridge with its bank controllers and  *)
(* the real-time clock of the MBC3 behind the bus (cartridge/, mmu.rs),    *)
(* and the debugger: its memory access, its breakpoint list, debug_step    *)
(* with the breakpoint lookahead, and reset (debugger.rs).                 *)
(*                                                                         *)
(* Each component has its own specification (SpecPpu, SpecTimer, SpecCpu,  *)
(* SpecDma, SpecLcd, SpecOamDma, SpecDmaHalt, SpecSerial, SpecSerialLive,  *)
(* SpecCart, SpecMbc3, SpecRtc, SpecBreakpoints, SpecDebugger); the        *)
(* components only meet in the interrupt flag register, the LCD registers  *)
(* of io[], the halt/stop flags and the memories of the bus.               *)
(* 16-bit and 8-bit arithmetic wraps (release-build semantics of the       *)
(* unchecked +/- in the source).  An index past the end of a slice aborts  *)
(* the process: the operation yields Panic.                                *)
(***************************************************************************)
EXTENDS Integers, Sequences, FiniteSets, TLC

VARIABLES
    \* ---- DmgPpu (ppu/dmg_ppu.rs) and the LCD registers in io[] ----
    ppu_mode,            \* self.mode
    ppu_line,            \* self.line
    ppu_clock,           \* self.clock
    front_buffer_index,  \* self.front_buffer_index
    back_buffer_index,   \* self.back_buffer_index
    buffers,             \* self.buffers: per buffer, per scanline, the frame that rendered it
    io_lcdc,             \* io[0x40]
    io_stat,             \* io[0x41]
    io_ly,               \* io[0x44]
    io_lyc,              \* io[0x45]
    vblank_entries,      \* number of HBlank->VBlank transitions so far
    tcycles_since_vblank,\* T-cycles since the last VBlank entry, LCD on throughout
    last_frame_len,      \* T-cycles between the two most recent VBlank entries
    tcycles_in_line,     \* T-cycles the PPU has spent on the current scanline, from its start
    last_line_len,       \* T-cycles the PPU spent on the scanline it left last
    \* ---- Timer (timer.rs) ----
    timer_model,         \* self.model
    div,                 \* self.div
    tima,                \* self.tima
    tma,                 \* self.tma
    tac,                 \* self.tac
    tima_overflow_delay, \* self.tima_overflow_delay
    t_phase,             \* T-cycle position inside the current machine cycle
    cpu_accessed,        \* the CPU has used its one bus access of this machine cycle
    timer_event,         \* what the last timer operation was and did
    since_overflow,      \* T-cycles since the pending TIMA overflow
    tima_written,        \* TIMA has been written since the pending TIMA overflow
    \* ---- CPU and interrupt registers (cpu/mod.rs, cpu/interrupts.rs) ----
    ime,                 \* cpu.ime
    next_ime_state,      \* cpu.next_ime_state
    halt,                \* cpu.halt
    stop,                \* cpu.stop
    pc,                  \* cpu.registers.pc
    sp,                  \* cpu.registers.sp
    interrupt_flag,      \* IF, 0xFF0F
    interrupt_enable,    \* IE, 0xFFFF
    stack,               \* the memory the stack pointer reaches: the nonzero bytes, by address
    cpu_phase,           \* position inside debug_step: "isr" or "exec"
    cpu_event,           \* what the last CPU step was and did
    steps,               \* number of debug_step calls so far
    \* ---- OAM DMA (oam_dma.rs) and the memory behind the bus (mmu.rs) ----
    oam_dma_state,       \* OamDmaState
    oam,                 \* ppu.oam: the nonzero bytes, by address
    vram,                \* ppu.vram: the nonzero bytes, by address
    wram,                \* wram: the nonzero bytes, by address
    hram,                \* cpu.hram: the nonzero bytes, by address
    accesses,            \* number of CPU bus writes so far
    last_ff46,           \* the last value the CPU wrote to 0xFF46
    dma_event,           \* what the last bus operation was and returned
    \* ---- Serial port (serial.rs) and its peer ----
    sb,                  \* self.sb
    sc,                  \* self.sc
    current_bit_cycles,  \* self.current_bit_cycles
    bits_shifted,        \* self.bits_shifted
    data_out,            \* self.data_out
    channels,            \* self.channels is Some
    input_queue,         \* bytes sent by the peer and not yet received by the port
    output_queue,        \* bytes the port has sent to the peer
    input_send_alive,    \* the peer still holds its sender
    output_recv_alive,   \* the peer still holds its receiver
    serial_blocked,      \* emulate_hardware is waiting inside receiver.recv()
    since_start,         \* emulate_hardware calls since the running internal transfer was started
    serial_ops,          \* number of register writes and peer sends so far
    serial_event,        \* what the last serial operation was and did
    \* ---- Cartridge (cartridge/) and the engine built around it ----
    engine,              \* "New", then what Gameboy::new gave ("Ok", "Err"), "Panic" once aborted
    cart,                \* VirtualCartridge: cart_info and the lengths of rom and ram
    mbc,                 \* the memory bank controller's registers
    rtc,                 \* MBC3's RTC, None without one
    rom_patch,           \* the ROM bytes changed since the image was loaded, by offset
    cart_ram,            \* VirtualCartridge.ram: the nonzero bytes, by index
    cart_ops,            \* number of writes so far
    cart_event,          \* what the last cartridge or debugger operation was and returned
    wall_clock,          \* time::now_utc().to_timespec().sec, the system clock
    latch_snapshot,      \* the RTC counters at the last write of 1 after 0 to 0x6000..0x7FFF
    \* ---- Debugger (debugger.rs) and the CPU state it inspects ----
    registers,           \* cpu.registers: a, f, b, c, d, e, h, l
    cycle_counter,       \* cpu.cycle_counter
    breakpoints,         \* debugger.breakpoints
    dbg_ops,             \* number of debugger commands so far
    dbg_event,           \* what the last debugger command was and returned
    dma_elapsed          \* T-cycles since the last write to 0xFF46, None before the first

ppu_vars == <<ppu_mode, ppu_line, ppu_clock, front_buffer_index, back_buffer_index,
              buffers, io_lcdc, io_stat, io_ly, io_lyc, vblank_entries,
              tcycles_since_vblank, last_frame_len, tcycles_in_line, last_line_len>>
timer_vars == <<timer_model, div, tima, tma, tac, tima_overflow_delay, t_phase,
                cpu_accessed, timer_event, since_overflow, tima_written>>
irq_vars == <<interrupt_flag, halt, stop>>
cpu_vars == <<ime, next_ime_state, pc, sp, interrupt_enable, stack, cpu_phase,
              cpu_event, steps>>
dma_vars == <<oam_dma_state, oam, vram, wram, hram, accesses, last_ff46, dma_event>>
serial_vars == <<sb, sc, current_bit_cycles, bits_shifted, data_out, channels,
                 input_queue, output_queue, input_send_alive, output_recv_alive,
                 serial_blocked, since_start, serial_ops, serial_event>>
cart_vars == <<engine, cart, mbc, rtc, rom_patch, cart_ram, cart_ops, cart_event>>
clock_vars == <<wall_clock, latch_snapshot>>
dbg_vars == <<registers, cycle_counter, breakpoints, dbg_ops, dbg_event, dma_elapsed>>
ext_vars == <<serial_vars, cart_vars, clock_vars, dbg_vars>>
vars == <<ppu_vars, timer_vars, irq_vars, cpu_vars, dma_vars, ext_vars>>

-----------------------------------------------------------------------------
\* Bounds of the model.

\* VBlank entries after which the PPU is no longer ticked.
MaxFrames == 2

-----------------------------------------------------------------------------
\* Integer helpers: the bit operations of u8 / u16 values.

Pow2(n) == 2 ^ n

\* (v >> n) & 1
Bit(v, n) == (v \div Pow2(n)) % 2

\* v & !(1 << n)
ClearBit(v, n) == v - Bit(v, n) * Pow2(n)

\* v | (1 << n)
SetBit(v, n) == v + (1 - Bit(v, n)) * Pow2(n)

\* u16 arithmetic
W16(v) == v % 65536

\* A zero-initialised byte array, kept as the map from the addresses of its
\* nonzero bytes to those bytes.
Load(mem, address) == IF address \in DOMAIN mem THEN mem[address] ELSE 0
Store(mem, address, value) ==
    IF value = 0 THEN [a \in (DOMAIN mem) \ {address} |-> mem[a]]
    ELSE (address :> value) @@ mem

-----------------------------------------------------------------------------
\* Interrupts (cpu/interrupts.rs, mod.rs).  An interrupt is its bit number.

VBlank == 0
LcdStat == 1
TimerInt == 2
Serial == 3
Joypad == 4
Interrupts == {VBlank, LcdStat, TimerInt, Serial, Joypad}

\* Interrupt::mask
Mask(int) == Pow2(int)

\* Interrupt::address
Address(int) ==
    CASE int = VBlank -> 64 [] int = LcdStat -> 72 [] int = TimerInt -> 80
      [] int = Serial -> 88 [] int = Joypad -> 96

\* InterruptFlag::request_interrupt: self.value |= int.mask()
FlagRequest(value, int) == SetBit(value, int)

\* A clear that wipes the whole register instead of one bit.
FlagClearAll(value, int) == 0

\* InterruptFlag::clear_interrupt: self.value &= !int.mask()
FlagClear(value, int) == ClearBit(value, int)

\* InterruptFlag::write / InterruptEnable::write: self.value = value & 0x1F
FlagWrite(value) == value % 32

\* InterruptFlag::read / InterruptEnable::read: self.value | 0xE0
FlagRead(value) == (value % 32) + 224

\* Gameboy::request_interrupt (mod.rs): set the bit in IF and wake the cpu.
\* A set of interrupts is requested one after the other.
RECURSIVE FlagRequestAll(_, _)
FlagRequestAll(value, ints) ==
    IF ints = {} THEN value
    ELSE LET i == CHOOSE x \in ints : TRUE
         IN FlagRequestAll(FlagRequest(value, i), ints \ {i})

-----------------------------------------------------------------------------
\* DmgPpu (ppu/dmg_ppu.rs)

HBLANK == "HBLANK"
VBLANK == "VBLANK"
SEARCH_OAM == "SEARCH_OAM"
TRANSFER_TO_LCD == "TRANSFER_TO_LCD"

\* PpuMode as u8
ModeBits(m) == CASE m = HBLANK -> 0 [] m = VBLANK -> 1
                 [] m = SEARCH_OAM -> 2 [] m = TRANSFER_TO_LCD -> 3

HEIGHT == 144
Unrendered == -1

\* lcdc & 128 != 0
LcdEnabled(lcdc) == Bit(lcdc, 7) = 1

\* A draw_scanline that indexes the buffers with front_buffer_index.
DrawTargetFront(front, back) == front

\* The buffer draw_scanline writes to: WIDTH * HEIGHT * self.back_buffer_index.
DrawTarget(front, back) == back

\* draw_scanline: every pixel of scanline `line` of the target buffer is
\* rewritten; the model records the frame in which the scanline was rendered.
\* A buffer maps the scanlines rendered into it so far to that frame.
draw_scanline(bufs, front, back, line, frame) ==
    [bufs EXCEPT ![DrawTarget(front, back)] = (line :> frame) @@ @]

\* The frame that rendered scanline y of a buffer, Unrendered for a scanline
\* still holding the zeroes the buffer was created with.
Scanline(buf, y) == IF y \in DOMAIN buf THEN buf[y] ELSE Unrendered

\* get_framebuffer: the front buffer
get_framebuffer == buffers[front_buffer_index]

\* The mode arm of emulate_hardware: the state after `self.clock += 4` and the
\* match on self.mode.  stat is io[0x41] & 0b01111000.
PpuModeStep(mode, line, clock, stat) ==
    LET c == clock + 4
        stay == [mode |-> mode, line |-> line, clock |-> c, vblank |-> FALSE,
                 lcdstat |-> FALSE, swap |-> FALSE, draw |-> FALSE]
    IN CASE mode = HBLANK ->
              IF c > 228
              THEN IF line + 1 < 144
                   THEN [stay EXCEPT !.mode = SEARCH_OAM, !.line = line + 1, !.clock = 0,
                                     !.lcdstat = (Bit(stat, 5) = 1)]
                   ELSE [stay EXCEPT !.mode = VBLANK, !.line = line + 1, !.clock = 0,
                                     !.vblank = TRUE, !.lcdstat = (Bit(stat, 4) = 1),
                                     !.swap = TRUE]
              ELSE stay
         [] mode = VBLANK ->
              IF c > 456
              THEN IF line + 1 >= 153
                   THEN [stay EXCEPT !.mode = SEARCH_OAM, !.line = 0, !.clock = 0,
                                     !.lcdstat = (Bit(stat, 5) = 1)]
                   ELSE [stay EXCEPT !.line = line + 1, !.clock = 0]
              ELSE stay
         [] mode = SEARCH_OAM ->
              IF c > 76
              THEN [stay EXCEPT !.mode = TRANSFER_TO_LCD, !.clock = 0]
              ELSE stay
         [] mode = TRANSFER_TO_LCD ->
              IF c > 152
              THEN [stay EXCEPT !.mode = HBLANK, !.clock = 0,
                                !.lcdstat = (Bit(stat, 3) = 1), !.draw = TRUE]
              ELSE stay

\* The value emulate_hardware writes back to io[0x41].
StatWriteBack(stat, mode, line, lyc) ==
    stat + (IF lyc = line THEN 4 ELSE 0) + ModeBits(mode) + 128

\* DmgPpu::emulate_hardware, one machine cycle (4 T-cycles), followed by the
\* interrupt requests Gameboy::emulate_hardware makes for it.
PpuEmulateHardware ==
    /\ vblank_entries < MaxFrames
    /\ IF ~LcdEnabled(io_lcdc)
       THEN \* Bit 7 of LCDC is zero: return
            UNCHANGED <<ppu_vars, irq_vars>>
       ELSE LET stat == (io_stat % 128) - (io_stat % 8)
                r == PpuModeStep(ppu_mode, ppu_line, ppu_clock, stat)
                coincidence == (io_lyc = r.line) /\ Bit(stat, 6) = 1
                reqs == (IF r.vblank THEN {VBlank} ELSE {})
                          \cup (IF r.lcdstat \/ coincidence THEN {LcdStat} ELSE {})
            IN /\ ppu_mode' = r.mode
               /\ ppu_line' = r.line
               /\ ppu_clock' = r.clock
               /\ front_buffer_index' = IF r.swap THEN back_buffer_index
                                        ELSE front_buffer_index
               /\ back_buffer_index' = IF r.swap THEN front_buffer_index
                                       ELSE back_buffer_index
               /\ buffers' = IF r.draw
                             THEN draw_scanline(buffers, front_buffer_index,
                                                back_buffer_index, ppu_line, vblank_entries)
                             ELSE buffers
               /\ io_stat' = StatWriteBack(stat, r.mode, r.line, io_lyc)
               /\ io_ly' = r.line
               /\ UNCHANGED <<io_lcdc, io_lyc>>
               /\ interrupt_flag' = FlagRequestAll(interrupt_flag, reqs)
               /\ halt' = IF reqs = {} THEN halt ELSE FALSE
               /\ UNCHANGED stop
               /\ vblank_entries' = IF r.swap THEN vblank_entries + 1 ELSE vblank_entries
               /\ tcycles_since_vblank' =
                     IF r.swap THEN 0
                     ELSE IF tcycles_since_vblank < 0 THEN tcycles_since_vblank
                     ELSE tcycles_since_vblank + 4
               /\ last_frame_len' =
                     IF r.swap /\ tcycles_since_vblank >= 0
                     THEN tcycles_since_vblank + 4
                     ELSE last_frame_len
               /\ tcycles_in_line' =
                     IF r.line # ppu_line THEN 0
                     ELSE IF tcycles_in_line < 0 THEN tcycles_in_line
                     ELSE tcycles_in_line + 4
               /\ last_line_len' =
                     IF r.line # ppu_line /\ tcycles_in_line >= 0
                     THEN tcycles_in_line + 4
                     ELSE last_line_len
    /\ cpu_accessed' = FALSE
    /\ UNCHANGED <<timer_model, div, tima, tma, tac, tima_overflow_delay, t_phase,
                   timer_event, since_overflow, tima_written>>
    /\ UNCHANGED <<cpu_vars, dma_vars, ext_vars>>

\* The values the model writes to LCDC: the post-bootrom value and the same
\* with bit 7 clear.
LcdcValues == {145, 17}

\* write_byte_io for 0xFF40: io[0x40] = value.  Nothing else happens when the
\* LCD is switched off or on.
WriteLcdc(value) ==
    /\ value # io_lcdc
    /\ io_lcdc' = value
    /\ tcycles_since_vblank' = IF LcdEnabled(value) THEN tcycles_since_vblank ELSE -1
    /\ UNCHANGED <<ppu_mode, ppu_line, ppu_clock, front_buffer_index, back_buffer_index,
                   buffers, io_stat, io_ly, io_lyc, vblank_entries, last_frame_len,
                   tcycles_in_line, last_line_len>>
    /\ UNCHANGED <<timer_vars, irq_vars, cpu_vars, dma_vars, ext_vars>>

-----------------------------------------------------------------------------
\* Timer (timer.rs)

\* Option::None of tima_overflow_delay
None == -1

\* A frequency table whose four entries all select DIV bit 3.
FreqAllBit3(t) == 8

\* FREQ[(tac & 3)]: the mask of the DIV bit that clocks TIMA
FREQ(t) == CASE t % 4 = 0 -> 512 [] t % 4 = 1 -> 8 [] t % 4 = 2 -> 32 [] t % 4 = 3 -> 128

\* d & freq != 0, for a one-bit mask freq
MaskSet(d, freq) == (d \div freq) % 2 = 1

\* tac & 4 == 4
TacEnabled(t) == Bit(t, 2) = 1

\* self.tima += 1; if self.tima > 0xFF { self.tima = 0; delay = Some(4) }
TimaIncrement(t) == IF t + 1 > 255 THEN [tima |-> 0, overflow |-> TRUE]
                    ELSE [tima |-> t + 1, overflow |-> FALSE]

\* InterruptLine::request_interrupt (cpu/interrupts.rs): set the IF bit and
\* clear halt and stop.
LineRequest(int) ==
    /\ interrupt_flag' = FlagRequest(interrupt_flag, int)
    /\ halt' = FALSE
    /\ stop' = FALSE

\* A CPU bus access happens at the start of a machine cycle, at most one per
\* machine cycle, before the four T-cycle ticks of that machine cycle.
MCycleBoundary == t_phase = 0 /\ ~cpu_accessed

\* The T-cycles the timer is ticked for.
MaxTicks == 20

\* Timer::emulate_hardware: one T-cycle.
TimerEmulateHardware ==
    /\ timer_event.ticks < MaxTicks
    /\ LET old_div == div
           new_div == W16(div + 1)
           freq == FREQ(tac)
           edge == TacEnabled(tac) /\ MaskSet(old_div, freq) /\ ~MaskSet(new_div, freq)
           inc == TimaIncrement(tima)
       IN /\ div' = new_div
          /\ IF tima_overflow_delay # None
             THEN IF tima_overflow_delay > 0
                  THEN /\ tima_overflow_delay' = tima_overflow_delay - 1
                       /\ UNCHANGED <<tima, irq_vars>>
                       /\ since_overflow' = since_overflow + 1
                       /\ UNCHANGED tima_written
                       /\ timer_event' = [kind |-> "tick", inc |-> FALSE, reload |-> FALSE,
                                          after |-> since_overflow + 1,
                                          ticks |-> timer_event.ticks + 1]
                  ELSE \* reload and request interrupt
                       /\ tima' = tma
                       /\ LineRequest(TimerInt)
                       /\ tima_overflow_delay' = None
                       /\ since_overflow' = -1
                       /\ tima_written' = FALSE
                       /\ timer_event' = [kind |-> "tick", inc |-> FALSE, reload |-> TRUE,
                                          after |-> since_overflow + 1,
                                          ticks |-> timer_event.ticks + 1]
             ELSE IF edge
                  THEN /\ tima' = inc.tima
                       /\ tima_overflow_delay' = IF inc.overflow THEN 4 ELSE None
                       /\ since_overflow' = IF inc.overflow THEN 0 ELSE -1
                       /\ UNCHANGED tima_written
                       /\ UNCHANGED irq_vars
                       /\ timer_event' = [kind |-> "tick", inc |-> TRUE, reload |-> FALSE,
                                          after |-> -1, ticks |-> timer_event.ticks + 1]
                  ELSE /\ UNCHANGED <<tima, tima_overflow_delay, since_overflow, tima_written,
                                      irq_vars>>
                       /\ timer_event' = [kind |-> "tick", inc |-> FALSE, reload |-> FALSE,
                                          after |-> -1, ticks |-> timer_event.ticks + 1]
    /\ t_phase' = (t_phase + 1) % 4
    /\ cpu_accessed' = FALSE
    /\ UNCHANGED <<timer_model, tma, tac>>
    /\ UNCHANGED <<ppu_vars, cpu_vars, dma_vars, ext_vars>>

\* Timer::write_io(Div, _): the divider resets to 0, which may clock TIMA.
WriteDiv ==
    /\ MCycleBoundary
    /\ LET freq == FREQ(tac)
           edge == TacEnabled(tac) /\ MaskSet(div, freq)
           inc == TimaIncrement(tima)
       IN /\ div' = 0
          /\ tima' = IF edge THEN inc.tima ELSE tima
          /\ tima_overflow_delay' = IF edge /\ inc.overflow THEN 4 ELSE tima_overflow_delay
          /\ since_overflow' = IF edge /\ inc.overflow THEN 0 ELSE since_overflow
          /\ tima_written' = IF edge /\ inc.overflow THEN FALSE ELSE tima_written
          /\ timer_event' = [kind |-> "write_div", inc |-> edge, reload |-> FALSE,
                             after |-> -1, ticks |-> timer_event.ticks]
    /\ cpu_accessed' = TRUE
    /\ UNCHANGED <<timer_model, tma, tac, t_phase>>
    /\ UNCHANGED <<ppu_vars, irq_vars, cpu_vars, dma_vars, ext_vars>>

\* Timer::write_io(Tima, value)
WriteTima(value) ==
    /\ MCycleBoundary
    /\ tima' = value
    /\ timer_event' = [kind |-> "write_tima", inc |-> FALSE, reload |-> FALSE,
                       after |-> -1, ticks |-> timer_event.ticks]
    /\ cpu_accessed' = TRUE
    /\ tima_written' = (tima_written \/ tima_overflow_delay # None)
    /\ UNCHANGED <<timer_model, div, tma, tac, tima_overflow_delay, t_phase, since_overflow>>
    /\ UNCHANGED <<ppu_vars, irq_vars, cpu_vars, dma_vars, ext_vars>>

\* Timer::write_io(Tma, value)
WriteTma(value) ==
    /\ MCycleBoundary
    /\ tma' = value
    /\ timer_event' = [kind |-> "write_tma", inc |-> FALSE, reload |-> FALSE,
                       after |-> -1, ticks |-> timer_event.ticks]
    /\ cpu_accessed' = TRUE
    /\ UNCHANGED <<timer_model, div, tima, tac, tima_overflow_delay, t_phase, since_overflow,
                   tima_written>>
    /\ UNCHANGED <<ppu_vars, irq_vars, cpu_vars, dma_vars, ext_vars>>

\* Timer::write_io(Tac, value): on the DMG a falling edge of
\* tac.enable & (div & freq) caused by the write clocks TIMA; on the CGB the
\* value is just stored.
WriteTac(value) ==
    /\ MCycleBoundary
    /\ LET old == TacEnabled(tac) /\ MaskSet(div, FREQ(tac))
           new == TacEnabled(value) /\ MaskSet(div, FREQ(value))
           edge == timer_model = "DMG" /\ old /\ ~new
           inc == TimaIncrement(tima)
       IN /\ tac' = value
          /\ tima' = IF edge THEN inc.tima ELSE tima
          /\ tima_overflow_delay' = IF edge /\ inc.overflow THEN 4 ELSE tima_overflow_delay
          /\ since_overflow' = IF edge /\ inc.overflow THEN 0 ELSE since_overflow
          /\ tima_written' = IF edge /\ inc.overflow THEN FALSE ELSE tima_written
          /\ timer_event' = [kind |-> "write_tac", inc |-> edge, reload |-> FALSE,
                             after |-> -1, ticks |-> timer_event.ticks]
    /\ cpu_accessed' = TRUE
    /\ UNCHANGED <<timer_model, div, tma, t_phase>>
    /\ UNCHANGED <<ppu_vars, irq_vars, cpu_vars, dma_vars, ext_vars>>

-----------------------------------------------------------------------------
\* CPU: interrupt dispatch and the instructions that touch the interrupt
\* state (mod.rs, instructions.rs, cpu/mod.rs)

\* The dispatcher's chain walked in the opposite order, from Joypad down to
\* VBlank.
ChooseInterruptLast(flag, enable) ==
    IF Bit(flag, Joypad) = 1 /\ Bit(enable, Joypad) = 1 THEN Joypad
    ELSE IF Bit(flag, Serial) = 1 /\ Bit(enable, Serial) = 1 THEN Serial
    ELSE IF Bit(flag, TimerInt) = 1 /\ Bit(enable, TimerInt) = 1 THEN TimerInt
    ELSE IF Bit(flag, LcdStat) = 1 /\ Bit(enable, LcdStat) = 1 THEN LcdStat
    ELSE IF Bit(flag, VBlank) = 1 /\ Bit(enable, VBlank) = 1 THEN VBlank
    ELSE None

\* The if / else if chain of interrupt_service_routine: the first interrupt
\* of VBlank, LcdStat, Timer, Serial, Joypad that is requested in IF and
\* enabled in IE; None when there is no such interrupt.
ChooseInterrupt(flag, enable) ==
    IF Bit(flag, VBlank) = 1 /\ Bit(enable, VBlank) = 1 THEN VBlank
    ELSE IF Bit(flag, LcdStat) = 1 /\ Bit(enable, LcdStat) = 1 THEN LcdStat
    ELSE IF Bit(flag, TimerInt) = 1 /\ Bit(enable, TimerInt) = 1 THEN TimerInt
    ELSE IF Bit(flag, Serial) = 1 /\ Bit(enable, Serial) = 1 THEN Serial
    ELSE IF Bit(flag, Joypad) = 1 /\ Bit(enable, Joypad) = 1 THEN Joypad
    ELSE None

\* Gameboy::write_byte for the addresses a stack push reaches: 0xFF0F is IF
\* (io[0x0F] = value), 0xFFFF is IE (self.cpu.ier = value), 0xFEA0-0xFEFF is
\* unusable, anything else is a plain store.  m holds IF, IE and the bytes
\* stored so far.  The bus stores the whole byte: it does not go through
\* InterruptFlag::write or InterruptEnable::write.
write_byte(m, address, value) ==
    IF address = 65295 THEN [m EXCEPT !.flag = value, !.flag_written = TRUE]
    ELSE IF address = 65535 THEN [m EXCEPT !.enable = value]
    ELSE IF address >= 65184 /\ address <= 65279 THEN m
    ELSE [m EXCEPT !.mem = Store(m.mem, address, value)]

\* Gameboy::read_byte_cpu for the addresses a stack pop and LDH A,(a8)
\* reach, no OAM DMA running: 0xFF0F is io[0x0F], 0xFFFF is self.cpu.ier,
\* 0xFEA0-0xFEFF reads 0xFF, anything else is the byte stored.
read_byte_stack(m, address) ==
    IF address = 65295 THEN m.flag
    ELSE IF address = 65535 THEN m.enable
    ELSE IF address >= 65184 /\ address <= 65279 THEN 255
    ELSE Load(m.mem, address)

\* nop
nop(c) == c

\* An ei that also sets ime at once.
ei_immediate(c) == [c EXCEPT !.ime = TRUE, !.next_ime_state = TRUE]

\* ei: self.cpu.next_ime_state = true
ei(c) == [c EXCEPT !.next_ime_state = TRUE]

\* di: self.cpu.next_ime_state = false
di(c) == [c EXCEPT !.next_ime_state = FALSE]

\* halt: self.cpu.halt = true
halt_instruction(c) == [c EXCEPT !.halt = TRUE]

\* stop: self.cpu.stop = true
stop_instruction(c) == [c EXCEPT !.stop = TRUE]

\* reti: _ret pops the return address (low byte at sp, high byte at sp + 1,
\* sp += 2), then self.cpu.next_ime_state = true
reti(c, mem) ==
    LET m == [flag |-> c.flag, enable |-> c.enable, mem |-> mem]
        addr_low == read_byte_stack(m, c.sp)
        addr_high == read_byte_stack(m, W16(c.sp + 1))
    IN [c EXCEPT !.sp = W16(c.sp + 2), !.pc = addr_high * 256 + addr_low,
                 !.next_ime_state = TRUE]

\* ld_a_at_ff00_plus_a8: A = read_byte_cpu(0xFF00 + a8), a 2 byte instruction
ld_a_at_ff00_plus_a8(a8, c, mem) ==
    LET m == [flag |-> c.flag, enable |-> c.enable, mem |-> mem]
    IN [c EXCEPT !.value = read_byte_stack(m, 65280 + a8), !.pc = W16(c.pc + 1)]

\* ld_sp_d16: sp = (high << 8) | low, a 3 byte instruction
ld_sp_d16(value, c) == [c EXCEPT !.sp = value, !.pc = W16(c.pc + 2)]

\* ld_at_ff00_plus_a8_a with a8 = 0x0F: write A to IF, a 2 byte instruction
ld_at_ff0f_a(value, c) ==
    [c EXCEPT !.flag = value, !.flag_written = TRUE, !.value = value,
              !.pc = W16(c.pc + 1)]

\* ld_at_ff00_plus_a8_a with a8 = 0xFF: write A to IE, a 2 byte instruction
ld_at_ffff_a(value, c) ==
    [c EXCEPT !.enable = value, !.value = value, !.pc = W16(c.pc + 1)]

\* The instructions executed in one run.
MaxSteps == 5

\* The interrupts the hardware raises while an instruction or a dispatch runs.
DuringSets == {{}, {TimerInt}, {VBlank, Joypad}}

NoEvent ==
    [kind |-> "none", op |-> "none", int |-> None, during |-> {}, if_cleared |-> 0,
     writes |-> <<>>, if_written |-> FALSE, fresh_ei |-> FALSE, after_ei |-> FALSE,
     pending |-> FALSE, masked |-> FALSE, value |-> None, waits |-> "none"]

\* A dispatcher that leaves next_ime_state as it is.
IsrNextImeStateKept(state) == state

\* The dispatcher on next_ime_state: self.cpu.next_ime_state = false.  Nested
\* interrupts are disabled unless the handler re-enables them.
IsrNextImeState(state) == FALSE

\* Gameboy::interrupt_service_routine, called before every instruction.
InterruptServiceRoutine ==
    /\ cpu_phase = "isr"
    /\ cpu_phase' = "exec"
    /\ LET int == ChooseInterrupt(interrupt_flag, interrupt_enable)
       IN IF ime /\ int # None
          THEN \E during \in DuringSets :
               LET high == pc \div 256
                   low == pc % 256
                   cleared == FlagClear(interrupt_flag, int)
                   m0 == [flag |-> cleared, enable |-> interrupt_enable, mem |-> stack,
                          flag_written |-> FALSE]
                   m1 == write_byte(m0, W16(sp - 1), high)
                   m2 == write_byte(m1, W16(sp - 2), low)
               IN /\ next_ime_state' = IsrNextImeState(next_ime_state)
                  /\ halt' = FALSE
                  /\ stop' = (stop /\ during = {})
                  /\ interrupt_flag' = FlagRequestAll(m2.flag, during)
                  /\ interrupt_enable' = m2.enable
                  /\ stack' = m2.mem
                  /\ sp' = W16(sp - 2)
                  /\ pc' = Address(int)
                  /\ cpu_event' = [NoEvent EXCEPT
                         !.kind = "dispatch", !.int = int, !.during = during,
                         !.if_cleared = cleared,
                         !.writes = <<[address |-> W16(sp - 1), value |-> high],
                                      [address |-> W16(sp - 2), value |-> low]>>,
                         !.if_written = m2.flag_written,
                         !.after_ei = cpu_event.fresh_ei,
                         !.pending = TRUE,
                         !.masked = TRUE,
                         !.waits = IF cpu_event.waits = "request" /\ during = {}
                                   THEN "request" ELSE "none"]
                  /\ UNCHANGED <<ime, steps>>
          ELSE /\ cpu_event' = [NoEvent EXCEPT
                      !.kind = "no_dispatch",
                      !.after_ei = cpu_event.fresh_ei,
                      !.pending = (int # None),
                      !.masked = cpu_event.masked,
                      !.waits = cpu_event.waits]
               /\ UNCHANGED <<ime, next_ime_state, pc, sp, interrupt_enable, stack, steps,
                              irq_vars>>
    /\ UNCHANGED <<ppu_vars, timer_vars, dma_vars, ext_vars>>

\* Gameboy::execute while the cpu is halted: the hardware is ticked for one
\* machine cycle, no instruction is fetched.
ExecuteHalted ==
    /\ cpu_phase = "exec"
    /\ steps < MaxSteps
    /\ halt
    /\ \E during \in DuringSets :
         /\ interrupt_flag' = FlagRequestAll(interrupt_flag, during)
         /\ halt' = (during = {})
         /\ stop' = (stop /\ during = {})
         /\ cpu_event' = [NoEvent EXCEPT !.kind = "halted", !.during = during,
                                         !.masked = cpu_event.masked,
                                         !.waits = IF cpu_event.waits = "request"
                                                      /\ during # {}
                                                   THEN "none" ELSE cpu_event.waits]
    /\ cpu_phase' = "isr"
    /\ steps' = steps + 1
    /\ UNCHANGED <<ime, next_ime_state, pc, sp, interrupt_enable, stack>>
    /\ UNCHANGED <<ppu_vars, timer_vars, dma_vars, ext_vars>>

\* Gameboy::execute up to the instruction body: ime takes the value of
\* next_ime_state, the opcode is fetched (pc += 1) and the hardware is ticked
\* for one machine cycle.
Fetch(during) ==
    [ime |-> next_ime_state, next_ime_state |-> next_ime_state, halt |-> FALSE,
     stop |-> (stop /\ during = {}), pc |-> W16(pc + 1), sp |-> sp,
     flag |-> interrupt_flag, enable |-> interrupt_enable, flag_written |-> FALSE,
     value |-> None]

\* Gameboy::execute of one instruction; c is the cpu after the instruction
\* body ran on Fetch(during).
Execute(op, c, during) ==
    /\ cpu_phase = "exec"
    /\ steps < MaxSteps
    /\ ~halt
    /\ ime' = c.ime
    /\ next_ime_state' = c.next_ime_state
    /\ halt' = c.halt
    /\ stop' = c.stop
    /\ pc' = c.pc
    /\ sp' = c.sp
    /\ interrupt_flag' = FlagRequestAll(c.flag, during)
    /\ interrupt_enable' = c.enable
    /\ cpu_event' = [NoEvent EXCEPT
           !.kind = "exec", !.op = op, !.during = during,
           !.if_written = c.flag_written,
           !.fresh_ei = (op = "ei" /\ ~ime /\ ~next_ime_state),
           !.after_ei = (cpu_event.kind = "no_dispatch" /\ cpu_event.after_ei),
           !.pending = (cpu_event.kind = "no_dispatch" /\ cpu_event.pending),
           !.masked = (cpu_event.masked /\ op \notin {"ei", "reti"}),
           !.value = c.value,
           !.waits = IF op # "halt" THEN "none"
                     ELSE IF c.ime THEN "dispatch"
                     ELSE IF ChooseInterrupt(FlagRequestAll(c.flag, during), c.enable) = None
                     THEN "request"
                     ELSE "none"]
    /\ cpu_phase' = "isr"
    /\ steps' = steps + 1
    /\ UNCHANGED stack
    /\ UNCHANGED <<ppu_vars, timer_vars, dma_vars, ext_vars>>

ExecuteNop == \E during \in DuringSets : Execute("nop", nop(Fetch(during)), during)

ExecuteEi == \E during \in DuringSets : Execute("ei", ei(Fetch(during)), during)

ExecuteDi == \E during \in DuringSets : Execute("di", di(Fetch(during)), during)

ExecuteHalt ==
    \E during \in DuringSets : Execute("halt", halt_instruction(Fetch(during)), during)

ExecuteStop ==
    \E during \in DuringSets : Execute("stop", stop_instruction(Fetch(during)), during)

ExecuteReti ==
    \E during \in DuringSets : Execute("reti", reti(Fetch(during), stack), during)

ExecuteLdhA(a8) ==
    \E during \in DuringSets :
        Execute("ld_a_at_ff00_plus_a8", ld_a_at_ff00_plus_a8(a8, Fetch(during), stack),
                during)

ExecuteLdSp(value) ==
    \E during \in DuringSets :
        Execute("ld_sp_d16", ld_sp_d16(value, Fetch(during)), during)

ExecuteLdIf(value) ==
    \E during \in DuringSets :
        Execute("ld_at_ff0f_a", ld_at_ff0f_a(value, Fetch(during)), during)

ExecuteLdIe(value) ==
    \E during \in DuringSets :
        Execute("ld_at_ffff_a", ld_at_ffff_a(value, Fetch(during)), during)

-----------------------------------------------------------------------------
\* Cartridge (cartridge/mod.rs, nombc.rs, mbc1.rs, mbc3.rs)

\* The outcome of an operation that panics (an index past the end of a slice):
\* the process aborts.
Panic == -2

\* The result of a function that returns Err.
Err == -1

ROM_BANK_SIZE == 16384
RAM_BANK_SIZE == 8192

\* The length a ROM image needs to hold a header.
HeaderLen == 336

\* CartInfo::get_type
get_type(cart_type) ==
    IF cart_type = 0 THEN "NONE"
    ELSE IF cart_type >= 1 /\ cart_type <= 3 THEN "MBC1"
    ELSE IF cart_type >= 5 /\ cart_type <= 6 THEN "MBC2"
    ELSE IF cart_type >= 8 /\ cart_type <= 9 THEN "NONE"
    ELSE IF cart_type >= 11 /\ cart_type <= 13 THEN "MMM01"
    ELSE IF cart_type >= 15 /\ cart_type <= 19 THEN "MBC3"
    ELSE IF cart_type >= 21 /\ cart_type <= 23 THEN "MBC4"
    ELSE IF cart_type >= 25 /\ cart_type <= 30 THEN "MBC5"
    ELSE IF cart_type = 32 THEN "MBC6"
    ELSE IF cart_type = 34 THEN "MBC7"
    ELSE IF cart_type = 252 THEN "CAMERA"
    ELSE IF cart_type = 253 THEN "TAMA5"
    ELSE IF cart_type = 254 THEN "HUC3"
    ELSE IF cart_type = 255 THEN "HUC1"
    ELSE "Err"

\* CartInfo::get_rom_size
get_rom_size(rom_size) ==
    IF rom_size <= 7 THEN 32768 * Pow2(rom_size)
    ELSE IF rom_size = 82 THEN 16384 * 72
    ELSE IF rom_size = 83 THEN 16384 * 80
    ELSE IF rom_size = 84 THEN 16384 * 96
    ELSE Err

\* CartInfo::get_ram_size
get_ram_size(ram_size) ==
    CASE ram_size = 0 -> 0
      [] ram_size = 1 -> 2 * 1024
      [] ram_size = 2 -> 8 * 1024
      [] ram_size = 3 -> 32 * 1024
      [] ram_size = 4 -> 128 * 1024
      [] ram_size = 5 -> 64 * 1024
      [] OTHER -> Err

\* CartInfo::has_rtc
has_rtc(cart_type) == cart_type \in {15, 16}

\* A ROM image: its length and the three header bytes the constructor reads,
\* rom[0x0147], rom[0x0148] and rom[0x0149].
Image(len, cart_type, rom_size, ram_size) ==
    [len |-> len, cart_type |-> cart_type, rom_size |-> rom_size, ram_size |-> ram_size]

\* CartInfo::new of core/src/gameboy/cartridge/mod.rs: the length is checked
\* before the header is read.
CartInfoNewCore(rom) ==
    IF rom.len < HeaderLen THEN "Err"
    ELSE IF get_type(rom.cart_type) = "Err" THEN "Err"
    ELSE IF get_rom_size(rom.rom_size) = Err THEN "Err"
    ELSE IF get_ram_size(rom.ram_size) = Err THEN "Err"
    ELSE "Ok"

\* CartInfo::new of src/gameboy/cartridge/mod.rs: rom[0x0147], rom[0x0148]
\* and rom[0x0149] are read, each followed by its try!, before the length is
\* checked.
CartInfoNew(rom) ==
    IF rom.len <= 327 THEN "Panic"
    ELSE IF get_type(rom.cart_type) = "Err" THEN "Err"
    ELSE IF rom.len <= 328 THEN "Panic"
    ELSE IF get_rom_size(rom.rom_size) = Err THEN "Err"
    ELSE IF rom.len <= 329 THEN "Panic"
    ELSE IF get_ram_size(rom.ram_size) = Err THEN "Err"
    ELSE IF rom.len < HeaderLen THEN "Err"
    ELSE "Ok"

\* The length of the RAM a VirtualCartridge ends up with.  ram is the length
\* of the RAM the caller supplies, None for no RAM.  src/: a supplied RAM is
\* taken as it is, and without one Vec::with_capacity(ram_size) is boxed, a
\* slice of length 0.  core/: the RAM is resized to ram_size.
RamLen(build, ram_size, ram) ==
    IF build = "core"
    THEN IF ram = -1 \/ ram < ram_size THEN ram_size ELSE ram
    ELSE IF ram = -1 THEN 0 ELSE ram

\* VirtualCartridge::new: "Ok", "Err" or "Panic".
VirtualCartridgeNew(build, rom) ==
    LET info == IF build = "core" THEN CartInfoNewCore(rom) ELSE CartInfoNew(rom)
    IN IF info # "Ok" THEN info
       ELSE IF get_type(rom.cart_type) \in {"NONE", "MBC1", "MBC3"} THEN "Ok"
       ELSE "Err"

\* The cartridge VirtualCartridge::new returns for a ROM it accepts.
Cartridge(build, rom, ram) ==
    [mbc_type |-> get_type(rom.cart_type),
     rom_size |-> get_rom_size(rom.rom_size),
     ram_size |-> get_ram_size(rom.ram_size),
     rtc |-> has_rtc(rom.cart_type),
     rom_len |-> rom.len,
     ram_len |-> RamLen(build, get_ram_size(rom.ram_size), ram),
     header |-> rom]

\* The byte a ROM image holds at a physical offset: the header bytes the
\* constructor read, elsewhere the number of the 16 KiB bank the offset lies
\* in, unless the byte has been patched.
RomByte(c, patch, offset) ==
    IF offset \in DOMAIN patch THEN patch[offset]
    ELSE IF offset = 327 THEN c.header.cart_type
    ELSE IF offset = 328 THEN c.header.rom_size
    ELSE IF offset = 329 THEN c.header.ram_size
    ELSE (offset \div ROM_BANK_SIZE) % 256

\* rom[index]: the byte, or a panic when the index is past the end of the image
RomIndex(c, patch, index) ==
    IF index < c.rom_len THEN RomByte(c, patch, index) ELSE Panic

\* ram[index]
RamIndex(c, ram, index) ==
    IF index < c.ram_len THEN Load(ram, index) ELSE Panic

\* MBC1::new, MBC3::new (NoMBC has no registers): rom_bank 1, ram_bank 0,
\* mode Rom, RAM disabled, nothing written to the latch register.
MbcNew ==
    [rom_bank |-> 1, ram_bank |-> 0, mode |-> "Rom", ram_enable |-> FALSE,
     latch_written |-> None]

\* Duration::new
DurationNew == [seconds |-> 0, minutes |-> 0, hours |-> 0, days |-> 0]

\* Duration::from(seconds)
DurationFrom(seconds) ==
    [seconds |-> seconds % 60, minutes |-> (seconds \div 60) % 60,
     hours |-> (seconds \div 3600) % 24, days |-> (seconds \div 86400) % 512]

\* Duration::get_seconds
get_seconds(d) == d.seconds + (d.minutes * 60) + (d.hours * 3600) + (d.days * 86400)

\* Duration::add_seconds
add_seconds(d, seconds) == DurationFrom(get_seconds(d) + seconds)

\* MBC3.rtc: Some(RTC::new()) when the header names a timer, else None
\* (present FALSE).  latched is Option<Duration>: is_latched and the value.
\* last is the system clock at construction.
RtcNew(rtc_enabled) ==
    [present |-> rtc_enabled, last |-> wall_clock, duration |-> DurationNew,
     is_latched |-> FALSE, latched |-> DurationNew, halt |-> FALSE,
     day_carry |-> FALSE]

\* RTC::update at system time `time`: delta = self.last - time, and only if
\* delta > 0 is last set to time and, unless halted, delta added to the
\* duration, with day_carry set if the day counter became smaller.
RtcUpdate(r, time) ==
    LET delta == r.last - time
        new_duration == add_seconds(r.duration, delta)
    IN IF delta > 0
       THEN IF ~r.halt
            THEN [r EXCEPT !.last = time, !.duration = new_duration,
                           !.day_carry = IF r.duration.days > new_duration.days
                                         THEN TRUE ELSE @]
            ELSE [r EXCEPT !.last = time]
       ELSE r

\* self.rom_bank = value & 0x1F (MBC1)
Mbc1RomBank(value) == value % 32

\* self.rom_bank = value & 0x7F (MBC3)
Mbc3RomBank(value) == value % 128

\* MBC1 with the upper bits left out of the ROM bank.
Mbc1LowRomBank(m) == m.rom_bank

\* MBC1::rom_bank: rom_bank | (ram_bank << 5) in mode Rom
Mbc1EffectiveRomBank(m) ==
    IF m.mode = "Rom" THEN m.rom_bank + 32 * m.ram_bank ELSE m.rom_bank

\* MBC1::ram_bank
Mbc1EffectiveRamBank(m) == IF m.mode = "Ram" THEN m.ram_bank ELSE 0

\* MemoryBankController::rom_bank
rom_bank(c, m) ==
    CASE c.mbc_type = "NONE" -> 1
      [] c.mbc_type = "MBC1" -> Mbc1EffectiveRomBank(m)
      [] c.mbc_type = "MBC3" -> m.rom_bank

\* Cartridge::read_byte_rom(address), address in 0x0000..0x7FFF
read_byte_rom(c, m, patch, address) ==
    CASE c.mbc_type = "NONE" ->
           IF address < c.rom_size THEN RomIndex(c, patch, address) ELSE 255
      [] c.mbc_type = "MBC1" ->
           LET a == IF address <= 16383 THEN address
                    ELSE (address - 16384) + 16384 * Mbc1EffectiveRomBank(m)
           IN IF a < c.rom_size THEN RomIndex(c, patch, a) ELSE 255
      [] c.mbc_type = "MBC3" ->
           IF address < 16384
           THEN IF address < c.rom_size THEN RomIndex(c, patch, address) ELSE 255
           ELSE LET bank_offset == m.rom_bank * ROM_BANK_SIZE
                IN IF bank_offset + address >= c.rom_size THEN 255
                   ELSE RomIndex(c, patch, bank_offset + (address - 16384))

\* RTC register read through the selector in ram_bank (RTC_S .. RTC_DH)
RtcRead(r, selector) ==
    LET d == IF r.is_latched THEN r.latched ELSE r.duration
    IN CASE selector = 8 -> d.seconds
         [] selector = 9 -> d.minutes
         [] selector = 10 -> d.hours
         [] selector = 11 -> d.days % 256
         [] selector = 12 -> ((d.days \div 256) % 2) + (IF r.halt THEN 64 ELSE 0)
                              + (IF r.day_carry THEN 128 ELSE 0)

\* RTC register write (set_seconds .. set_days_high)
RtcWrite(r, selector, value) ==
    CASE selector = 8 -> [r EXCEPT !.duration.seconds = value % 60]
      [] selector = 9 -> [r EXCEPT !.duration.minutes = value % 60]
      [] selector = 10 -> [r EXCEPT !.duration.hours = value % 24]
      [] selector = 11 ->
           [r EXCEPT !.duration.days = value + ((r.duration.days \div 256) % 2) * 256]
      [] selector = 12 -> [r EXCEPT !.duration.days = r.duration.days % 256,
                                    !.halt = Bit(value, 6) = 1,
                                    !.day_carry = Bit(value, 7) = 1]

\* Cartridge::read_byte_ram(address).  The bus passes the address itself
\* (0xA000..0xBFFF), and the controllers use it as the offset into the RAM.
read_byte_ram(c, m, ram, r, address) ==
    CASE c.mbc_type = "NONE" ->
           IF address < c.ram_size THEN RamIndex(c, ram, address) ELSE 255
      [] c.mbc_type = "MBC1" ->
           LET a == address + RAM_BANK_SIZE * Mbc1EffectiveRamBank(m)
           IN IF a < c.ram_size THEN RamIndex(c, ram, a) ELSE 255
      [] c.mbc_type = "MBC3" ->
           IF ~m.ram_enable THEN 255
           ELSE IF m.ram_bank <= 3
           THEN LET a == RAM_BANK_SIZE * m.ram_bank + address
                IN IF a < c.ram_size THEN RamIndex(c, ram, a) ELSE 255
           ELSE IF m.ram_bank >= 8 /\ m.ram_bank <= 12
           THEN IF r.present THEN RtcRead(RtcUpdate(r, wall_clock), m.ram_bank) ELSE 255
           ELSE 255

\* The RTC after Cartridge::read_byte_ram(address): a read of an RTC register
\* updates the clock first (rtc.update(); rtc_cell.set(rtc)).
read_byte_ram_rtc(c, m, r) ==
    IF c.mbc_type = "MBC3" /\ m.ram_enable /\ m.ram_bank >= 8 /\ m.ram_bank <= 12
       /\ r.present
    THEN RtcUpdate(r, wall_clock)
    ELSE r

\* The selector an MBC3 keeps for a value written to 0x4000..0x5FFF: the
\* value if it is a RAM bank or an RTC register, else 0.
Mbc3Selector(value) ==
    IF value <= 3 \/ (value >= 8 /\ value <= 12) THEN value ELSE 0

\* Cartridge::write_byte_rom(address, value): the new controller registers.
write_byte_rom(c, m, address, value) ==
    CASE c.mbc_type = "NONE" -> m
      [] c.mbc_type = "MBC1" ->
           IF address <= 8191 THEN [m EXCEPT !.ram_enable = (value % 16) \in {10, 11, 14, 15}]
           ELSE IF address <= 16383 THEN [m EXCEPT !.rom_bank = Mbc1RomBank(value)]
           ELSE IF address <= 24575 THEN [m EXCEPT !.ram_bank = value % 4]
           ELSE IF address <= 32767
           THEN [m EXCEPT !.mode = IF value % 2 = 0 THEN "Rom" ELSE "Ram"]
           ELSE m
      [] c.mbc_type = "MBC3" ->
           IF address <= 8191 THEN [m EXCEPT !.ram_enable = (value = 10)]
           ELSE IF address <= 16383 THEN [m EXCEPT !.rom_bank = Mbc3RomBank(value)]
           ELSE IF address <= 24575 THEN [m EXCEPT !.ram_bank = Mbc3Selector(value)]
           ELSE IF address <= 32767 THEN [m EXCEPT !.latch_written = value]
           ELSE m

\* The RTC after Cartridge::write_byte_rom(address, value): 0 then 1 written
\* to 0x6000..0x7FFF latches the clock (RTC::latch: update, then
\* latched = Some(duration)), 0 unlatches it (latched = None).
write_byte_rom_rtc(c, m, r, address, value) ==
    IF c.mbc_type = "MBC3" /\ address >= 24576 /\ address <= 32767 /\ r.present
    THEN IF m.latch_written = 0 /\ value = 1
         THEN [RtcUpdate(r, wall_clock) EXCEPT
                   !.is_latched = TRUE, !.latched = RtcUpdate(r, wall_clock).duration]
         ELSE IF value = 0 THEN [r EXCEPT !.is_latched = FALSE]
         ELSE r
    ELSE r

\* Cartridge::write_byte_ram(address, value): the RAM afterwards, and whether
\* the store panicked.
write_byte_ram(c, m, ram, address, value) ==
    LET a == CASE c.mbc_type = "NONE" -> address
               [] c.mbc_type = "MBC1" -> address + RAM_BANK_SIZE * Mbc1EffectiveRamBank(m)
               [] c.mbc_type = "MBC3" -> RAM_BANK_SIZE * m.ram_bank + address
        selected == CASE c.mbc_type = "MBC3" -> m.ram_enable /\ m.ram_bank <= 3
                      [] OTHER -> TRUE
    IN IF selected /\ a < c.ram_size
       THEN IF a < c.ram_len THEN [ram |-> Store(ram, a, value), panic |-> FALSE]
            ELSE [ram |-> ram, panic |-> TRUE]
       ELSE [ram |-> ram, panic |-> FALSE]

\* The RTC after Cartridge::write_byte_ram(address, value)
write_byte_ram_rtc(c, m, r, value) ==
    IF c.mbc_type = "MBC3" /\ m.ram_enable /\ m.ram_bank >= 8 /\ m.ram_bank <= 12
       /\ r.present
    THEN RtcWrite(r, m.ram_bank, value)
    ELSE r

-----------------------------------------------------------------------------
\* OAM DMA (oam_dma.rs) and the memory bus (mmu.rs)

InVram(address) == address >= 32768 /\ address <= 40959
InWram(address) == address >= 49152 /\ address <= 57343
InEcho(address) == address >= 57344 /\ address <= 65023
InOam(address) == address >= 65024 /\ address <= 65183
InHram(address) == address >= 65408 /\ address <= 65534

\* OamDmaState::current_src_address: Some(start_address + current_offset)
\* while active and current_cycle > 4, else None.
current_src_address(state) ==
    IF state.active /\ state.current_cycle > 4
    THEN W16(state.start_address + state.current_offset)
    ELSE None

\* OamDmaState::should_block_cpu_access
should_block_cpu_access(state, address) ==
    LET src == current_src_address(state)
    IN IF src # None
       THEN IF address <= 32767 \/ (address >= 40960 /\ address <= 65023)
            THEN src < 32768 \/ (src >= 40960 /\ src < 65024)
            ELSE IF InVram(address) THEN src >= 32768 /\ src < 40960
            ELSE IF InOam(address) THEN TRUE
            ELSE FALSE
       ELSE FALSE

\* OamDmaController::start_oam_dma
start_oam_dma(addr_high) ==
    [active |-> TRUE, current_cycle |-> 0, current_offset |-> 0,
     start_address |-> W16(addr_high * 256)]

\* self.oam_dma_active as read by the bus functions of mmu.rs: the active
\* flag of the OAM DMA controller.
oam_dma_active == oam_dma_state.active

\* The LCD registers in io[]: LCDC, STAT, LY, LYC.
LCDC == 65344
STAT == 65345
LY == 65348
LYC == 65349
LcdRegisters == {LCDC, STAT, LY, LYC}

\* The OAM DMA register
DMA == 65350

\* read_byte_io for the LCD registers and 0xFF46: self.io[address - 0xFF00].
\* write_byte_io hands a write to 0xFF46 to start_oam_dma and stores nothing,
\* so io[0x46] keeps the 0 the io array is created with.
read_byte_io(address) ==
    CASE address = LCDC -> io_lcdc [] address = STAT -> io_stat
      [] address = LY -> io_ly [] address = LYC -> io_lyc
      [] address = DMA -> 0

\* write_byte_io for the LCD registers: self.io[address - 0xFF00] = value.
\* r is the record of the four registers.
write_byte_io(r, address, value) ==
    CASE address = LCDC -> [r EXCEPT !.lcdc = value]
      [] address = STAT -> [r EXCEPT !.stat = value]
      [] address = LY -> [r EXCEPT !.ly = value]
      [] address = LYC -> [r EXCEPT !.lyc = value]

\* read_byte_vram: 0xFF when io[0x41] & 3 == 3, else the byte
read_byte_vram(mem, stat, address) == IF stat % 4 = 3 THEN 255 ELSE Load(mem, address)

\* write_byte_vram: the byte is stored when io[0x41] & 3 != 3
write_byte_vram(mem, stat, address, value) ==
    IF stat % 4 # 3 THEN Store(mem, address, value) ELSE mem

\* read_byte_oam: 0xFF when io[0x41] & 3 > 1, else the byte
read_byte_oam(mem, stat, address) == IF stat % 4 > 1 THEN 255 ELSE Load(mem, address)

\* write_byte_oam: the byte is stored when io[0x41] & 3 < 2
write_byte_oam(mem, stat, address, value) ==
    IF stat % 4 < 2 THEN Store(mem, address, value) ELSE mem

\* read_byte_wram / write_byte_wram: the index into self.wram of an address
\* in 0xC000..0xDFFF, selected_wram_bank = 1.
WramIndexCpu(address) ==
    IF address <= 53247 THEN address - 49152
    ELSE (address - 49152) + 4096

\* Mmu::read_byte and Mmu::write_byte: the index into self.wram, through
\* wram() = wram[0..0x1000] and banked_wram() = wram[0x1000..0x2000].  The
\* echo 0xE000..0xF000 indexes banked_wram() with address - 0xE000 and the
\* rest of the echo with address - 0xD000; an index of 0x1000 or more is
\* past the end of the slice.
WramIndex(address) ==
    IF address <= 53247 THEN address - 49152
    ELSE IF address <= 57343 THEN 4096 + (address - 53248)
    ELSE IF address <= 61440
    THEN IF address - 57344 < 4096 THEN 4096 + (address - 57344) ELSE Panic
    ELSE IF address - 53248 < 4096 THEN 4096 + (address - 53248) ELSE Panic

\* Mmu::read_byte, the bus as the DMA controller and the debugger see it.
read_byte(address) ==
    IF address <= 32767 THEN read_byte_rom(cart, mbc, rom_patch, address)
    ELSE IF InVram(address) THEN Load(vram, address)
    ELSE IF address <= 49151 THEN read_byte_ram(cart, mbc, cart_ram, rtc, address)
    ELSE IF InWram(address) \/ InEcho(address)
    THEN IF WramIndex(address) = Panic THEN Panic ELSE Load(wram, WramIndex(address))
    ELSE IF InOam(address) THEN Load(oam, address)
    ELSE IF address \in LcdRegisters THEN read_byte_io(address)
    ELSE IF InHram(address) THEN Load(hram, address)
    ELSE IF address = 65535 THEN interrupt_enable
    ELSE 255

\* The memories a bus write can change, as they are, and no panic.
Memories ==
    [mbc |-> mbc, rtc |-> rtc, cart_ram |-> cart_ram, vram |-> vram,
     wram |-> wram, oam |-> oam, hram |-> hram, lyc |-> io_lyc,
     ier |-> interrupt_enable, panic |-> FALSE]

\* Mmu::write_byte: what the write leaves in each memory, and whether an
\* index was past the end of its slice.  Of io[] the one register written
\* through this path is LYC.
mmu_write_byte(address, value) ==
    LET w == Memories
    IN IF address <= 32767
       THEN [w EXCEPT !.mbc = write_byte_rom(cart, mbc, address, value),
                      !.rtc = write_byte_rom_rtc(cart, mbc, rtc, address, value)]
       ELSE IF InVram(address) THEN [w EXCEPT !.vram = Store(vram, address, value)]
       ELSE IF address <= 49151
       THEN [w EXCEPT !.cart_ram = write_byte_ram(cart, mbc, cart_ram, address, value).ram,
                      !.rtc = write_byte_ram_rtc(cart, mbc, rtc, value),
                      !.panic = write_byte_ram(cart, mbc, cart_ram, address, value).panic]
       ELSE IF InWram(address) \/ InEcho(address)
       THEN IF WramIndex(address) = Panic THEN [w EXCEPT !.panic = TRUE]
            ELSE [w EXCEPT !.wram = Store(wram, WramIndex(address), value)]
       ELSE IF InOam(address) THEN [w EXCEPT !.oam = Store(oam, address, value)]
       ELSE IF address = LYC THEN [w EXCEPT !.lyc = value]
       ELSE IF InHram(address) THEN [w EXCEPT !.hram = Store(hram, address, value)]
       ELSE IF address = 65535 THEN [w EXCEPT !.ier = value]
       ELSE w


\* A gate that stops below OAM (address < 0xFE00).
CpuAccessGateBelowOam(address) == oam_dma_active /\ address < 65024

\* if self.oam_dma_active && address < 0xFF80: the CPU cannot use the bus.
CpuAccessGate(address) == oam_dma_active /\ address < 65408

\* Mmu::read_byte_cpu: 0xFF while the gate is closed, else the byte, VRAM
\* and OAM subject to the PPU mode in STAT.
read_byte_cpu(address) ==
    IF CpuAccessGate(address) THEN 255
    ELSE IF address <= 32767 THEN read_byte_rom(cart, mbc, rom_patch, address)
    ELSE IF InVram(address) THEN read_byte_vram(vram, io_stat, address)
    ELSE IF address <= 49151 THEN read_byte_ram(cart, mbc, cart_ram, rtc, address)
    ELSE IF InWram(address) THEN Load(wram, WramIndexCpu(address))
    ELSE IF InEcho(address) THEN Load(wram, WramIndexCpu(address - 8192))
    ELSE IF InOam(address) THEN read_byte_oam(oam, io_stat, address)
    ELSE IF address \in LcdRegisters \cup {DMA} THEN read_byte_io(address)
    ELSE IF InHram(address) THEN Load(hram, address)
    ELSE IF address = 65535 THEN interrupt_enable
    ELSE 255

NoBusEvent == [kind |-> "none", address |-> 0, value |-> 0]

\* The addresses the CPU reads and writes: VRAM, work RAM and its echo, the
\* first and last byte of OAM, the unusable area, high RAM.
CpuAddresses == {32768, 49408, 57600, 65024, 65183, 65184, 65408}

\* The bytes the CPU writes.
CpuValues == {85}

\* The source pages written to 0xFF46: VRAM and work RAM.
DmaPages == {128, 193}

\* The CPU bus writes of one run.
MaxAccesses == 2

\* A CPU read through Mmu::read_byte_cpu.
CpuRead(address) ==
    /\ dma_event' = [kind |-> "cpu_read", address |-> address,
                     value |-> read_byte_cpu(address)]
    /\ UNCHANGED <<oam_dma_state, oam, vram, wram, hram, accesses, last_ff46>>
    /\ UNCHANGED <<ppu_vars, timer_vars, irq_vars, cpu_vars, ext_vars>>

\* A CPU write through Mmu::write_byte_cpu; a write to 0xFF46 starts an OAM
\* DMA (write_byte_io).
CpuWrite(address, value) ==
    /\ accesses < MaxAccesses
    /\ accesses' = accesses + 1
    /\ last_ff46' = IF address = DMA THEN value ELSE last_ff46
    /\ dma_event' = [kind |-> "cpu_write", address |-> address, value |-> value]
    /\ IF CpuAccessGate(address)
       THEN UNCHANGED <<oam_dma_state, oam, vram, wram, hram>>
       ELSE /\ vram' = IF InVram(address) THEN write_byte_vram(vram, io_stat, address, value)
                       ELSE vram
            /\ wram' = IF InWram(address) THEN Store(wram, WramIndexCpu(address), value)
                       ELSE IF InEcho(address)
                       THEN Store(wram, WramIndexCpu(address - 8192), value)
                       ELSE wram
            /\ oam' = IF InOam(address) THEN write_byte_oam(oam, io_stat, address, value)
                      ELSE oam
            /\ hram' = IF InHram(address) THEN Store(hram, address, value) ELSE hram
            /\ oam_dma_state' = IF address = DMA THEN start_oam_dma(value)
                                ELSE oam_dma_state
    /\ UNCHANGED <<ppu_vars, timer_vars, irq_vars, cpu_vars, ext_vars>>

\* OamDmaController::service_oam_dma_transfer: one T-cycle of the DMA
\* controller.  On every 4th cycle from 4 to 644 a byte is copied with
\* Mmu::read_byte / Mmu::write_byte, which drops writes above 0xFE9F.
service_oam_dma_transfer ==
    /\ ~halt
    /\ oam_dma_state.active
    /\ LET cycle == oam_dma_state.current_cycle
           offset == oam_dma_state.current_offset
           copy == cycle >= 4 /\ cycle <= 644 /\ cycle % 4 = 0
           src == W16(oam_dma_state.start_address + offset)
           byte == read_byte(src)
           dest == W16(65024 + offset)
       IN /\ oam' = IF copy /\ InOam(dest) THEN Store(oam, dest, byte)
                    ELSE oam
          /\ oam_dma_state' = [oam_dma_state EXCEPT
                 !.current_offset = IF copy THEN W16(offset + 1) ELSE offset,
                 !.current_cycle = W16(cycle + 1),
                 !.active = ~(W16(cycle + 1) >= 648)]
          /\ dma_event' = IF copy THEN [kind |-> "dma_copy", address |-> dest, value |-> byte]
                          ELSE [kind |-> "dma_idle", address |-> 0, value |-> 0]
    /\ UNCHANGED <<vram, wram, hram, accesses, last_ff46>>

\* The controller serviced for one T-cycle, nothing else happening
ServiceOamDmaTransfer ==
    /\ service_oam_dma_transfer
    /\ UNCHANGED <<ppu_vars, timer_vars, irq_vars, cpu_vars, ext_vars>>

\* The T-cycles after a write to 0xFF46 that are followed
MaxDmaElapsed == 652

\* The CPU writes addr_high to 0xFF46 (write_byte_io, start_oam_dma), no
\* transfer having been started before; the T-cycles are counted from here.
Ff46Write(addr_high) ==
    /\ ~halt
    /\ dma_elapsed = None
    /\ dma_elapsed' = 0
    /\ oam_dma_state' = start_oam_dma(addr_high)
    /\ last_ff46' = addr_high
    /\ dma_event' = [kind |-> "cpu_write", address |-> DMA, value |-> addr_high]
    /\ UNCHANGED <<oam, vram, wram, hram, accesses>>
    /\ UNCHANGED <<registers, cycle_counter, breakpoints, dbg_ops, dbg_event>>
    /\ UNCHANGED <<ppu_vars, timer_vars, irq_vars, cpu_vars, serial_vars, cart_vars,
                   clock_vars>>

\* One T-cycle after the write to 0xFF46: service_oam_dma_transfer is
\* called, while the CPU runs and, out of execute(), while it is halted.
DmaTCycle ==
    /\ dma_elapsed # None
    /\ dma_elapsed < MaxDmaElapsed
    /\ dma_elapsed' = dma_elapsed + 1
    /\ IF ~halt /\ oam_dma_state.active
       THEN service_oam_dma_transfer
       ELSE UNCHANGED dma_vars
    /\ UNCHANGED <<registers, cycle_counter, breakpoints, dbg_ops, dbg_event>>
    /\ UNCHANGED <<ppu_vars, timer_vars, irq_vars, cpu_vars, serial_vars, cart_vars,
                   clock_vars>>

\* halt() at the end of the machine cycle that fetched HALT (0x76): the CPU
\* stops, no interrupt being enabled to wake it.
DmaHalt ==
    /\ ~halt
    /\ dma_elapsed # None
    /\ dma_elapsed % 4 = 0
    /\ interrupt_enable = 0
    /\ halt' = TRUE
    /\ dma_event' = [kind |-> "halt", address |-> pc, value |-> 118]
    /\ UNCHANGED <<oam_dma_state, oam, vram, wram, hram, accesses, last_ff46>>
    /\ UNCHANGED <<interrupt_flag, stop>>
    /\ UNCHANGED <<ppu_vars, timer_vars, cpu_vars, ext_vars>>

-----------------------------------------------------------------------------
\* The CPU on the bus while the PPU runs: VRAM, OAM and the LCD registers
\* (mmu.rs, ppu/dmg_ppu.rs, instructions.rs)

\* The scanline up to which the PPU is ticked while the CPU uses the bus.
MaxLcdLines == 2

\* The addresses the CPU reads and writes while the PPU runs: the first byte
\* of VRAM, the first byte of OAM, STAT and LY.
LcdAddresses == {32768, 65024, STAT, LY}

\* The CPU writes while the PPU runs: a byte to VRAM and to OAM, the LCD off
\* and on, the mode and coincidence bits of STAT, LY and LYC.
LcdWrites ==
    {<<32768, 85>>, <<65024, 85>>, <<LCDC, 17>>, <<LCDC, 145>>,
     <<STAT, 0>>, <<STAT, 7>>, <<LY, 7>>, <<LYC, 1>>}

\* One machine cycle of the PPU between two bus accesses of the CPU.
LcdEmulateHardware ==
    /\ ppu_line < MaxLcdLines
    /\ PpuEmulateHardware

\* A read of the CPU through read_byte_cpu.  Every instruction follows each
\* of its bus accesses with emulate_hardware, so there is one access per
\* machine cycle.
LcdCpuRead(address) ==
    /\ ~cpu_accessed
    /\ cpu_accessed' = TRUE
    /\ dma_event' = [kind |-> "cpu_read", address |-> address,
                     value |-> read_byte_cpu(address)]
    /\ UNCHANGED <<timer_model, div, tima, tma, tac, tima_overflow_delay, t_phase,
                   timer_event, since_overflow, tima_written>>
    /\ UNCHANGED <<oam_dma_state, oam, vram, wram, hram, accesses, last_ff46>>
    /\ UNCHANGED <<ppu_vars, irq_vars, cpu_vars, ext_vars>>

\* A write of the CPU through write_byte_cpu to VRAM, OAM or an LCD register.
LcdCpuWrite(address, value) ==
    /\ ~cpu_accessed
    /\ cpu_accessed' = TRUE
    /\ dma_event' = [kind |-> "cpu_write", address |-> address, value |-> value]
    /\ LET open == ~CpuAccessGate(address)
           regs == [lcdc |-> io_lcdc, stat |-> io_stat, ly |-> io_ly, lyc |-> io_lyc]
           r == IF open /\ address \in LcdRegisters THEN write_byte_io(regs, address, value)
                ELSE regs
       IN /\ vram' = IF open /\ InVram(address)
                     THEN write_byte_vram(vram, io_stat, address, value) ELSE vram
          /\ oam' = IF open /\ InOam(address)
                    THEN write_byte_oam(oam, io_stat, address, value) ELSE oam
          /\ io_lcdc' = r.lcdc
          /\ io_stat' = r.stat
          /\ io_ly' = r.ly
          /\ io_lyc' = r.lyc
          /\ tcycles_since_vblank' = IF LcdEnabled(r.lcdc) THEN tcycles_since_vblank ELSE -1
    /\ UNCHANGED <<ppu_mode, ppu_line, ppu_clock, front_buffer_index, back_buffer_index,
                   buffers, vblank_entries, last_frame_len, tcycles_in_line, last_line_len>>
    /\ UNCHANGED <<timer_model, div, tima, tma, tac, tima_overflow_delay, t_phase,
                   timer_event, since_overflow, tima_written>>
    /\ UNCHANGED <<oam_dma_state, wram, hram, accesses, last_ff46>>
    /\ UNCHANGED <<irq_vars, cpu_vars, ext_vars>>

-----------------------------------------------------------------------------
\* Serial port (serial.rs) and the peer at the other end of its two channels

\* The byte both SB holds after Serial::new and a transfer without a peer loads.
SbDisconnected == 255

\* write_sc keeps bits 7, 1 and 0: self.sc = value & 0x83
ScWritten(value) == (value \div 128) * 128 + (value % 4)

\* self.sc & 0x80 == 0x80: a transfer is armed
TransferActive(c) == Bit(c, 7) = 1

\* self.sc & 1 == 1: the internal clock is selected
InternalClock(c) == Bit(c, 0) = 1

\* The intra-bit wait of an internally clocked transfer: a bit is shifted by
\* the call that finds current_bit_cycles >= 64.
BitCyclesReached(cycles) == cycles >= 64

\* self.data_out |= self.sb & (0x80 >> (self.bits_shifted % 8))
StageBit(out, s, shifted) ==
    LET n == 7 - (shifted % 8)
    IN IF Bit(s, n) = 1 THEN SetBit(out, n) ELSE out

\* An externally driven transfer leaves SB alone.
ExternalSwapKept(s, byte) == s

\* self.sb = byte of an externally driven transfer
ExternalSwap(s, byte) == byte

\* What an internally clocked port answers to a byte from the peer: 0xFF if
\* bit 7 of SB is set, else 0.
InternalAnswer(s) == IF Bit(s, 7) = 1 THEN 255 ELSE 0

NoSerialEvent ==
    [kind |-> "none", received |-> None, answered |-> None, shifted |-> FALSE,
     completed |-> FALSE, sent |-> None, reply |-> None, armed |-> FALSE,
     internal |-> FALSE, after |-> -1]

\* The bytes the CPU writes to SB, the values it writes to SC (internal
\* start, external start, external without start) and the bytes the peer
\* sends.
SbValues == {165}
ScValues == {129, 128, 0}
PeerBytes == {60}

\* The CPU register writes and peer sends of one run.
MaxSerialOps == 3

\* Serial::write_sb
WriteSb(value) ==
    /\ ~serial_blocked
    /\ serial_ops < MaxSerialOps
    /\ serial_ops' = serial_ops + 1
    /\ sb' = value
    /\ serial_event' = [NoSerialEvent EXCEPT !.kind = "write_sb"]
    /\ UNCHANGED <<sc, current_bit_cycles, bits_shifted, data_out, channels,
                   input_queue, output_queue, input_send_alive, output_recv_alive,
                   serial_blocked, since_start>>
    /\ UNCHANGED <<ppu_vars, timer_vars, irq_vars, cpu_vars, dma_vars, cart_vars,
                   clock_vars, dbg_vars>>

\* Serial::write_sc
WriteSc(value) ==
    /\ ~serial_blocked
    /\ serial_ops < MaxSerialOps
    /\ serial_ops' = serial_ops + 1
    /\ sc' = ScWritten(value)
    /\ IF TransferActive(value)
       THEN current_bit_cycles' = 0 /\ bits_shifted' = 0 /\ data_out' = 0
       ELSE UNCHANGED <<current_bit_cycles, bits_shifted, data_out>>
    /\ since_start' = IF TransferActive(value) /\ InternalClock(value) THEN 0 ELSE -1
    /\ serial_event' = [NoSerialEvent EXCEPT !.kind = "write_sc"]
    /\ UNCHANGED <<sb, channels, input_queue, output_queue, input_send_alive,
                   output_recv_alive, serial_blocked>>
    /\ UNCHANGED <<ppu_vars, timer_vars, irq_vars, cpu_vars, dma_vars, cart_vars,
                   clock_vars, dbg_vars>>

\* Serial::create_channels: two fresh channels, the port keeps the sender of
\* one and the receiver of the other, the peer gets the other two ends.
CreateChannels ==
    /\ ~serial_blocked
    /\ ~channels
    /\ input_send_alive /\ output_recv_alive
    /\ input_queue = <<>> /\ output_queue = <<>>
    /\ channels' = TRUE
    /\ serial_event' = [NoSerialEvent EXCEPT !.kind = "create_channels"]
    /\ UNCHANGED <<sb, sc, current_bit_cycles, bits_shifted, data_out, input_queue,
                   output_queue, input_send_alive, output_recv_alive, serial_blocked,
                   since_start, serial_ops>>
    /\ UNCHANGED <<ppu_vars, timer_vars, irq_vars, cpu_vars, dma_vars, cart_vars,
                   clock_vars, dbg_vars>>

\* The peer sends a byte into the channel the port receives from.
PeerSend(byte) ==
    /\ channels
    /\ input_send_alive
    /\ serial_ops < MaxSerialOps
    /\ serial_ops' = serial_ops + 1
    /\ input_queue' = Append(input_queue, byte)
    /\ serial_event' = [NoSerialEvent EXCEPT !.kind = "peer_send"]
    /\ UNCHANGED <<sb, sc, current_bit_cycles, bits_shifted, data_out, channels,
                   output_queue, input_send_alive, output_recv_alive, serial_blocked,
                   since_start>>
    /\ UNCHANGED <<ppu_vars, timer_vars, irq_vars, cpu_vars, dma_vars, cart_vars,
                   clock_vars, dbg_vars>>

\* The peer drops its sender.
PeerDropSender ==
    /\ channels
    /\ input_send_alive
    /\ input_send_alive' = FALSE
    /\ serial_event' = [NoSerialEvent EXCEPT !.kind = "peer_drop_sender"]
    /\ UNCHANGED <<sb, sc, current_bit_cycles, bits_shifted, data_out, channels,
                   input_queue, output_queue, output_recv_alive, serial_blocked,
                   since_start, serial_ops>>
    /\ UNCHANGED <<ppu_vars, timer_vars, irq_vars, cpu_vars, dma_vars, cart_vars,
                   clock_vars, dbg_vars>>

\* The peer drops its receiver.
PeerDropReceiver ==
    /\ channels
    /\ output_recv_alive
    /\ output_recv_alive' = FALSE
    /\ serial_event' = [NoSerialEvent EXCEPT !.kind = "peer_drop_receiver"]
    /\ UNCHANGED <<sb, sc, current_bit_cycles, bits_shifted, data_out, channels,
                   input_queue, output_queue, input_send_alive, serial_blocked,
                   since_start, serial_ops>>
    /\ UNCHANGED <<ppu_vars, timer_vars, irq_vars, cpu_vars, dma_vars, cart_vars,
                   clock_vars, dbg_vars>>

\* The end of an internally clocked transfer, from the point where the reply
\* (or the failure of send or recv) is known: SB is loaded, Serial is
\* requested, SC bit 7 is cleared and the counters are reset.
\* reply is the byte received, None after a failure or without a peer.
FinishTransfer(reply, connected, ev) ==
    /\ sb' = IF reply # None THEN reply ELSE SbDisconnected
    /\ channels' = connected
    /\ LineRequest(Serial)
    /\ sc' = ClearBit(sc, 7)
    /\ current_bit_cycles' = 0
    /\ bits_shifted' = 0
    /\ since_start' = -1
    /\ serial_blocked' = FALSE
    /\ serial_event' = [ev EXCEPT !.completed = TRUE, !.reply = reply]

\* Serial::emulate_hardware: one T-cycle of the serial port.
SerialEmulateHardware ==
    /\ ~serial_blocked
    /\ LET \* reciever.try_recv() gives Ok(byte) while a byte is queued
           got == channels /\ input_queue # <<>>
           byte == IF got THEN Head(input_queue) ELSE None
           external == got /\ ~InternalClock(sc)
           sb1 == IF external THEN ExternalSwap(sb, byte) ELSE sb
           armed == external /\ TransferActive(sc)
           sc1 == IF armed THEN ClearBit(sc, 7) ELSE sc
           bits1 == IF armed THEN 0
                    ELSE IF external THEN (bits_shifted + 8) % 256
                    ELSE bits_shifted
           answer == IF external THEN sb ELSE IF got THEN InternalAnswer(sb) ELSE None
           \* sender.send(out) fails when the peer has dropped its receiver
           channels1 == channels /\ (got => output_recv_alive)
           input1 == IF got THEN Tail(input_queue) ELSE input_queue
           output1 == IF got /\ output_recv_alive THEN Append(output_queue, answer)
                      ELSE output_queue
           ev1 == [NoSerialEvent EXCEPT !.kind = "emulate_hardware",
                                        !.received = byte, !.answered = answer,
                                        !.armed = got /\ TransferActive(sc),
                                        !.internal = got /\ InternalClock(sc)]
           clocked == TransferActive(sc1) /\ InternalClock(sc1)
           shift == clocked /\ BitCyclesReached(current_bit_cycles)
           out2 == StageBit(data_out, sb1, bits1)
           bits2 == bits1 + 1
           ev2 == [ev1 EXCEPT !.shifted = TRUE, !.after = since_start + 1]
       IN /\ input_send_alive' = input_send_alive
          /\ output_recv_alive' = output_recv_alive
          /\ serial_ops' = serial_ops
          /\ IF ~shift
             THEN /\ sb' = sb1
                  /\ sc' = sc1
                  /\ bits_shifted' = bits1
                  /\ channels' = channels1
                  /\ input_queue' = input1
                  /\ output_queue' = output1
                  /\ current_bit_cycles' = IF clocked THEN current_bit_cycles + 1
                                           ELSE current_bit_cycles
                  /\ since_start' = IF clocked /\ since_start >= 0 THEN since_start + 1
                                    ELSE since_start
                  /\ serial_event' = ev1
                  /\ IF armed THEN LineRequest(Serial) ELSE UNCHANGED irq_vars
                  /\ UNCHANGED <<data_out, serial_blocked>>
             ELSE /\ data_out' = out2
                  /\ IF bits2 < 8
                     THEN /\ sb' = sb1
                          /\ sc' = sc1
                          /\ bits_shifted' = bits2
                          /\ current_bit_cycles' = 0
                          /\ channels' = channels1
                          /\ input_queue' = input1
                          /\ output_queue' = output1
                          /\ since_start' = since_start + 1
                          /\ serial_event' = ev2
                          /\ UNCHANGED <<irq_vars, serial_blocked>>
                     ELSE IF ~channels1
                     THEN \* no serial device is connected: load 0xFF
                          /\ input_queue' = input1
                          /\ output_queue' = output1
                          /\ FinishTransfer(None, FALSE, ev2)
                     ELSE IF ~output_recv_alive
                     THEN \* sender.send(self.data_out) fails
                          /\ input_queue' = input1
                          /\ output_queue' = output1
                          /\ FinishTransfer(None, FALSE, ev2)
                     ELSE IF input1 # <<>>
                     THEN \* receiver.recv() returns the next queued byte
                          /\ input_queue' = Tail(input1)
                          /\ output_queue' = Append(output1, out2)
                          /\ FinishTransfer(Head(input1), TRUE,
                                            [ev2 EXCEPT !.sent = out2])
                     ELSE IF ~input_send_alive
                     THEN \* receiver.recv() fails: the peer's sender is gone
                          /\ input_queue' = input1
                          /\ output_queue' = Append(output1, out2)
                          /\ FinishTransfer(None, FALSE, [ev2 EXCEPT !.sent = out2])
                     ELSE \* receiver.recv() blocks
                          /\ sb' = sb1
                          /\ sc' = sc1
                          /\ bits_shifted' = bits2
                          /\ current_bit_cycles' = 0
                          /\ channels' = channels1
                          /\ input_queue' = input1
                          /\ output_queue' = Append(output1, out2)
                          /\ since_start' = since_start + 1
                          /\ serial_blocked' = TRUE
                          /\ serial_event' = [ev2 EXCEPT !.sent = out2]
                          /\ UNCHANGED irq_vars
    /\ UNCHANGED <<ppu_vars, timer_vars, cpu_vars, dma_vars, cart_vars,
                   clock_vars, dbg_vars>>

\* receiver.recv() of a blocked emulate_hardware call returns: with the byte
\* the peer has sent, or with an error once the peer's sender is dropped and
\* nothing is queued.
SerialRecvReturns ==
    /\ serial_blocked
    /\ input_queue # <<>> \/ ~input_send_alive
    /\ IF input_queue # <<>>
       THEN /\ input_queue' = Tail(input_queue)
            /\ FinishTransfer(Head(input_queue), TRUE,
                              [NoSerialEvent EXCEPT !.kind = "recv_returns",
                                                    !.sent = data_out,
                                                    !.after = since_start])
       ELSE /\ input_queue' = input_queue
            /\ FinishTransfer(None, FALSE,
                              [NoSerialEvent EXCEPT !.kind = "recv_returns",
                                                    !.sent = data_out,
                                                    !.after = since_start])
    /\ UNCHANGED <<data_out, output_queue, input_send_alive, output_recv_alive,
                   serial_ops>>
    /\ UNCHANGED <<ppu_vars, timer_vars, cpu_vars, dma_vars, cart_vars,
                   clock_vars, dbg_vars>>

-----------------------------------------------------------------------------
\* The engine built from a ROM image (Gameboy::new), the debugger's memory
\* access (debugger.rs) and the CPU's accesses to the cartridge.

\* The 32 KiB ROM without a controller that the other specifications run.
DefaultImage == Image(32768, 0, 0, 0)

\* The ROM images engines are built from, each with the length of the RAM
\* file handed over with it (None: no RAM file): images too short for a
\* header, a header-only image, ROMs whose header names an unknown or an
\* unimplemented controller or an unknown size code, a ROM with 8 KiB of RAM,
\* a 2 MiB MBC1 ROM, and 64 KiB MBC3 ROMs with 64 KiB of RAM and with a timer.
CartImages ==
    {<<Image(256, 0, 0, 0), None>>,
     <<Image(332, 0, 0, 0), None>>,
     <<Image(336, 0, 0, 0), None>>,
     <<DefaultImage, None>>,
     <<Image(32768, 4, 0, 0), None>>,
     <<Image(32768, 5, 0, 0), None>>,
     <<Image(32768, 0, 8, 0), None>>,
     <<Image(32768, 0, 0, 6), None>>,
     <<Image(32768, 8, 0, 2), 8192>>,
     <<Image(2097152, 1, 6, 0), None>>,
     <<Image(65536, 19, 1, 5), 65536>>,
     <<Image(65536, 16, 1, 5), None>>}

\* The two cartridge constructors in the tree.
Builds == {"src", "core"}

\* One address in each region of the bus: ROM bank 0, the banked ROM,
\* VRAM, cartridge RAM, work RAM banks 0 and 1, the echo below and from
\* 0xF000, OAM, the unusable area, LYC, HRAM and IE.
CartAddresses ==
    {256, 16384, 32768, 40960, 49408, 53248, 57600, 61440, 65024, 65184, LYC,
     65408, 65535}

\* The bytes written to memory
CartValues == {85}

\* The writes of the CPU to the cartridge, <<address, value>>: RAM enable,
\* ROM bank 0 and 2, upper bits or selector 2, 5 and 8, mode or latch 0 and
\* 1, and a byte for the cartridge RAM.
CartCpuWrites ==
    {<<0, 10>>, <<8192, 0>>, <<8192, 2>>, <<16384, 2>>, <<16384, 5>>, <<16384, 8>>,
     <<24576, 0>>, <<24576, 1>>, <<40960, 85>>}

\* The writes of one run.
MaxCartOps == 2

NoCartEvent ==
    [kind |-> "none", address |-> 0, value |-> 0, old |-> 0, rom |-> DefaultImage,
     before |-> MbcNew]

\* Gameboy::new(rom, ram): the engine around VirtualCartridge::new(rom, ram),
\* whose Err is handed to the caller by try!.
GameboyNew(build, rom, ram) ==
    /\ engine = "New"
    /\ LET result == VirtualCartridgeNew(build, rom)
       IN /\ engine' = result
          /\ cart' = IF result = "Ok" THEN Cartridge(build, rom, ram) ELSE cart
          /\ rtc' = RtcNew(result = "Ok" /\ get_type(rom.cart_type) = "MBC3"
                           /\ has_rtc(rom.cart_type))
          /\ cart_event' = [NoCartEvent EXCEPT !.kind = "new", !.rom = rom]
    /\ UNCHANGED <<mbc, rom_patch, cart_ram, cart_ops>>
    /\ UNCHANGED <<ppu_vars, timer_vars, irq_vars, cpu_vars, dma_vars, serial_vars,
                   clock_vars, dbg_vars>>

\* Debugger::read_memory: Mmu::read_byte
ReadMemory(address) ==
    /\ engine = "Ok"
    /\ LET value == read_byte(address)
       IN /\ cart_event' = [NoCartEvent EXCEPT !.kind = "read_memory",
                                                !.address = address, !.value = value,
                                                !.before = mbc]
          /\ engine' = IF value = Panic THEN "Panic" ELSE engine
    /\ rtc' = IF address \in 40960..49151 THEN read_byte_ram_rtc(cart, mbc, rtc) ELSE rtc
    /\ UNCHANGED <<cart, mbc, rom_patch, cart_ram, cart_ops>>
    /\ UNCHANGED <<ppu_vars, timer_vars, irq_vars, cpu_vars, dma_vars, serial_vars,
                   clock_vars, dbg_vars>>

\* The length of the slice Cartridge::banked_rom_mut returns
BankedRomLen(c, m) ==
    LET base_address == rom_bank(c, m) * ROM_BANK_SIZE
    IN IF base_address >= c.rom_len THEN 0
       ELSE IF base_address + ROM_BANK_SIZE >= c.rom_len THEN c.rom_len - base_address
       ELSE ROM_BANK_SIZE

\* Debugger::write_memory: below 0x4000 the byte is stored in rom_mut(), the
\* slice rom[0..0x4000]; from 0x4000 to 0x7FFF it is stored in
\* banked_rom_mut() at address - 0x4000 if the address is less than the
\* length of that slice; elsewhere Mmu::write_byte.
WriteMemory(address, value) ==
    /\ engine = "Ok"
    /\ cart_ops < MaxCartOps
    /\ cart_ops' = cart_ops + 1
    /\ LET w == IF address >= 32768 THEN mmu_write_byte(address, value)
                ELSE [Memories EXCEPT
                          !.panic = address <= 16383 /\ cart.rom_len < 16384]
           base_address == rom_bank(cart, mbc) * ROM_BANK_SIZE
       IN /\ rom_patch' =
                IF address <= 16383
                THEN IF cart.rom_len >= 16384
                     THEN (address :> value) @@ rom_patch ELSE rom_patch
                ELSE IF address <= 32767 /\ address < BankedRomLen(cart, mbc)
                THEN ((base_address + (address - 16384)) :> value) @@ rom_patch
                ELSE rom_patch
          /\ mbc' = w.mbc
          /\ rtc' = w.rtc
          /\ cart_ram' = w.cart_ram
          /\ vram' = w.vram
          /\ wram' = w.wram
          /\ oam' = w.oam
          /\ hram' = w.hram
          /\ io_lyc' = w.lyc
          /\ interrupt_enable' = w.ier
          /\ engine' = IF w.panic THEN "Panic" ELSE engine
          /\ cart_event' = [NoCartEvent EXCEPT !.kind = "write_memory",
                                                !.address = address, !.value = value,
                                                !.old = read_byte(address),
                                                !.before = mbc]
    /\ UNCHANGED cart
    /\ UNCHANGED <<ppu_mode, ppu_line, ppu_clock, front_buffer_index, back_buffer_index,
                   buffers, io_lcdc, io_stat, io_ly, vblank_entries,
                   tcycles_since_vblank, last_frame_len, tcycles_in_line, last_line_len>>
    /\ UNCHANGED <<ime, next_ime_state, pc, sp, stack, cpu_phase, cpu_event, steps>>
    /\ UNCHANGED <<oam_dma_state, accesses, last_ff46, dma_event>>
    /\ UNCHANGED <<timer_vars, irq_vars, serial_vars, clock_vars, dbg_vars>>

\* A read of the CPU through Mmu::read_byte_cpu
CartCpuRead(address) ==
    /\ engine = "Ok"
    /\ LET value == read_byte_cpu(address)
       IN /\ cart_event' = [NoCartEvent EXCEPT !.kind = "cpu_read",
                                                !.address = address, !.value = value,
                                                !.before = mbc]
          /\ engine' = IF value = Panic THEN "Panic" ELSE engine
    /\ rtc' = IF address \in 40960..49151 /\ ~CpuAccessGate(address)
              THEN read_byte_ram_rtc(cart, mbc, rtc) ELSE rtc
    /\ UNCHANGED <<cart, mbc, rom_patch, cart_ram, cart_ops>>
    /\ UNCHANGED <<ppu_vars, timer_vars, irq_vars, cpu_vars, dma_vars, serial_vars,
                   clock_vars, dbg_vars>>

\* A write of the CPU through Mmu::write_byte_cpu to the cartridge: its
\* registers (0x0000..0x7FFF) or its RAM (0xA000..0xBFFF).
write_byte_cpu_cart(address, value) ==
    /\ engine = "Ok"
    /\ cart_ops' = cart_ops + 1
    /\ LET open == ~CpuAccessGate(address)
           w == write_byte_ram(cart, mbc, cart_ram, address, value)
       IN /\ mbc' = IF open /\ address <= 32767
                    THEN write_byte_rom(cart, mbc, address, value) ELSE mbc
          /\ rtc' = IF open /\ address <= 32767
                    THEN write_byte_rom_rtc(cart, mbc, rtc, address, value)
                    ELSE IF open THEN write_byte_ram_rtc(cart, mbc, rtc, value)
                    ELSE rtc
          /\ cart_ram' = IF open /\ address > 32767 THEN w.ram ELSE cart_ram
          /\ engine' = IF open /\ address > 32767 /\ w.panic THEN "Panic" ELSE engine
          /\ cart_event' = [NoCartEvent EXCEPT !.kind = "cpu_write",
                                                !.address = address, !.value = value,
                                                !.old = read_byte_cpu(address),
                                                !.before = mbc]
          /\ latch_snapshot' =
                IF /\ open /\ cart.mbc_type = "MBC3" /\ rtc.present
                   /\ address \in 24576..32767 /\ mbc.latch_written = 0 /\ value = 1
                THEN [taken |-> TRUE, duration |-> RtcUpdate(rtc, wall_clock).duration]
                ELSE latch_snapshot
    /\ UNCHANGED <<cart, rom_patch, wall_clock>>
    /\ UNCHANGED <<ppu_vars, timer_vars, irq_vars, cpu_vars, dma_vars, serial_vars, dbg_vars>>

\* The CPU's writes to the cartridge, MaxCartOps of them in a run
CartCpuWrite(address, value) ==
    /\ cart_ops < MaxCartOps
    /\ write_byte_cpu_cart(address, value)

\* The system clock is set to `time` (it runs, or it is adjusted either way).
ClockSet(time) ==
    /\ time # wall_clock
    /\ wall_clock' = time
    /\ cart_event' = [NoCartEvent EXCEPT !.kind = "clock", !.value = time]
    /\ UNCHANGED <<engine, cart, mbc, rtc, rom_patch, cart_ram, cart_ops, latch_snapshot>>
    /\ UNCHANGED <<ppu_vars, timer_vars, irq_vars, cpu_vars, dma_vars, serial_vars, dbg_vars>>

\* RTC::update, called at the system time
RtcUpdateCall ==
    /\ engine = "Ok"
    /\ rtc.present
    /\ rtc' = RtcUpdate(rtc, wall_clock)
    /\ cart_event' = [NoCartEvent EXCEPT !.kind = "rtc_update", !.value = wall_clock]
    /\ UNCHANGED <<engine, cart, mbc, rom_patch, cart_ram, cart_ops>>
    /\ UNCHANGED <<ppu_vars, timer_vars, irq_vars, cpu_vars, dma_vars, serial_vars,
                   clock_vars, dbg_vars>>

\* The MBC3 ROM with a timer and no RAM that the clock runs in.
TimerImage == Image(65536, 15, 1, 0)

\* The system time at which the engine is built, a year after the epoch.
ClockStart == 31536000

\* The system times: a second and a minute after the start, a second before
\* it, and the epoch.
ClockTimes == {0, ClockStart - 1, ClockStart, ClockStart + 1, ClockStart + 61}

\* The writes of the CPU to the MBC3, <<address, value>>: RAM and timer
\* enable, the selectors RTC_S, RTC_DL and RTC_DH, 0 and 1 to the latch, and the values 5,
\* 0x40 (halt) and 0xFF for the selected register.
RtcWrites ==
    {<<0, 10>>, <<16384, 8>>, <<16384, 11>>, <<16384, 12>>, <<24576, 0>>, <<24576, 1>>,
     <<40960, 5>>, <<40960, 64>>, <<40960, 255>>}

\* The writes of one run of the clock.
MaxRtcOps == 6

\* The CPU's writes to the MBC3, MaxRtcOps of them in a run
RtcCpuWrite(address, value) ==
    /\ cart_ops < MaxRtcOps
    /\ write_byte_cpu_cart(address, value)

-----------------------------------------------------------------------------
\* Debugger (debugger.rs): the breakpoint list

Breakpoint(address, access_type) == [address |-> address, access_type |-> access_type]

\* #[derive(PartialOrd, Ord)] of AccessType: the variants in the order they
\* are declared, Read < Write < Execute < Jump
AccessTypeOrd(access_type) ==
    CASE access_type = "Read" -> 0
      [] access_type = "Write" -> 1
      [] access_type = "Execute" -> 2
      [] access_type = "Jump" -> 3

\* #[derive(PartialOrd, Ord)] of Breakpoint: the address, then the access
\* type; -1 for Less, 0 for Equal, 1 for Greater
BreakpointCmp(x, y) ==
    IF x.address < y.address THEN -1
    ELSE IF x.address > y.address THEN 1
    ELSE IF AccessTypeOrd(x.access_type) < AccessTypeOrd(y.access_type) THEN -1
    ELSE IF AccessTypeOrd(x.access_type) > AccessTypeOrd(y.access_type) THEN 1
    ELSE 0

\* breakpoints.binary_search(&x) between the 0-based indices lo and hi:
\* Ok(index) of an equal element, or Err(index) of where x would be inserted
RECURSIVE Bisect(_, _, _, _)
Bisect(s, x, lo, hi) ==
    IF lo >= hi THEN [found |-> FALSE, index |-> lo]
    ELSE LET mid == lo + ((hi - lo) \div 2)
             c == BreakpointCmp(s[mid + 1], x)
         IN IF c = 0 THEN [found |-> TRUE, index |-> mid]
            ELSE IF c < 0 THEN Bisect(s, x, mid + 1, hi)
            ELSE Bisect(s, x, lo, mid)

binary_search(s, x) == Bisect(s, x, 0, Len(s))

\* Vec::insert(index, x)
InsertAt(s, index, x) == SubSeq(s, 1, index) \o <<x>> \o SubSeq(s, index + 1, Len(s))

\* Vec::remove(index)
RemoveAt(s, index) == SubSeq(s, 1, index) \o SubSeq(s, index + 2, Len(s))

\* A list to which every breakpoint is pushed at the end.
add_breakpoint_push(s, breakpoint) == Append(s, breakpoint)

\* Debugger::add_breakpoint: inserted where binary_search says it is missing
add_breakpoint(s, breakpoint) ==
    LET result == binary_search(s, breakpoint)
    IN IF result.found THEN s ELSE InsertAt(s, result.index, breakpoint)

\* Debugger::remove_breakpoint: Err(()) for an index past the end
remove_breakpoint(s, index) ==
    IF index >= Len(s) THEN [ok |-> FALSE, breakpoints |-> s, removed |-> Breakpoint(0, "Read")]
    ELSE [ok |-> TRUE, breakpoints |-> RemoveAt(s, index), removed |-> s[index + 1]]

NoDebugEvent ==
    [kind |-> "none", index |-> 0, ok |-> TRUE, bp |-> Breakpoint(0, "Read"),
     before |-> <<>>, found |-> FALSE, opcode |-> 0, pc |-> 0, target |-> None,
     taken |-> FALSE, mcycles |-> 0]

\* The breakpoints the debugger's user adds: three addresses, every access type
BreakpointValues ==
    {Breakpoint(address, access_type) :
        address \in {256, 261, 49408}, access_type \in {"Read", "Write", "Execute", "Jump"}}

\* The debugger commands of one run.
MaxDbgOps == 4

\* `breakpoint add <type> <address>`
AddBreakpoint(breakpoint) ==
    /\ dbg_ops < MaxDbgOps
    /\ dbg_ops' = dbg_ops + 1
    /\ breakpoints' = add_breakpoint(breakpoints, breakpoint)
    /\ dbg_event' = [NoDebugEvent EXCEPT !.kind = "add", !.bp = breakpoint,
                                          !.before = breakpoints]
    /\ UNCHANGED <<registers, cycle_counter, dma_elapsed>>
    /\ UNCHANGED <<ppu_vars, timer_vars, irq_vars, cpu_vars, dma_vars, serial_vars,
                   cart_vars, clock_vars>>

\* `breakpoint remove <index>`
RemoveBreakpoint(index) ==
    /\ dbg_ops < MaxDbgOps
    /\ dbg_ops' = dbg_ops + 1
    /\ LET result == remove_breakpoint(breakpoints, index)
       IN /\ breakpoints' = result.breakpoints
          /\ dbg_event' = [NoDebugEvent EXCEPT !.kind = "remove", !.index = index,
                                                !.ok = result.ok, !.bp = result.removed,
                                                !.before = breakpoints]
    /\ UNCHANGED <<registers, cycle_counter, dma_elapsed>>
    /\ UNCHANGED <<ppu_vars, timer_vars, irq_vars, cpu_vars, dma_vars, serial_vars,
                   cart_vars, clock_vars>>

-----------------------------------------------------------------------------
\* Debugger (debugger.rs): debug_step, the lookahead for breakpoints and the
\* instructions it looks at (instructions.rs)

\* Registers::init_dmg
RegistersInitDmg ==
    [a |-> 1, f |-> 176, b |-> 0, c |-> 19, d |-> 0, e |-> 216, h |-> 1, l |-> 77]

\* f & ZERO_FLAG == ZERO_FLAG, f & CARRY_FLAG == CARRY_FLAG
ZeroFlag(f) == Bit(f, 7) = 1
CarryFlag(f) == Bit(f, 4) = 1

\* get_register_pair(BC), (DE), (HL)
RegBC(r) == r.b * 256 + r.c
RegDE(r) == r.d * 256 + r.e
RegHL(r) == r.h * 256 + r.l

\* (high << 8) | low
Word(high, low) == high * 256 + low

\* The opcode tables of breakpoint_lookahead
JR == {24, 32, 40, 48, 56}
JP == {194, 195, 202, 210, 218, 233}
CALL == {196, 204, 205, 212, 220}
RET == {192, 200, 201, 208, 216, 217}
RST == {199, 207, 215, 223, 231, 239, 247, 255}
JUMPS ==
    {24, 32, 40, 48, 56, 192, 194, 195, 196, 199, 200, 201, 202, 204, 205, 207, 208,
     210, 212, 215, 216, 217, 218, 220, 223, 231, 233, 239, 247, 255}
READ_AT_HL ==
    {42, 52, 53, 58, 70, 78, 86, 94, 102, 110, 126, 134, 142, 150, 158, 166, 174, 182,
     190, 233}
READ_AT_HL_EXTENDED ==
    {6, 14, 22, 30, 38, 46, 54, 62, 70, 78, 86, 94, 102, 110, 118, 126}
READS == {10, 26, 240, 242, 250} \cup READ_AT_HL
WRITE_AT_HL == {34, 50, 52, 53, 54, 112, 113, 114, 115, 116, 117, 119}
WRITE_AT_HL_EXTENDED ==
    {6, 14, 22, 30, 38, 46, 54, 62, 134, 142, 150, 158, 166, 174, 182, 190, 198, 206,
     214, 222, 230, 238, 246, 254}
WRITES == {2, 8, 18, 224, 226, 234} \cup WRITE_AT_HL

\* The table of RST targets in breakpoint_lookahead
LookaheadRst(opcode) ==
    CASE opcode = 199 -> 0
      [] opcode = 207 -> 8
      [] opcode = 215 -> 16
      [] opcode = 223 -> 24
      [] opcode = 231 -> 32
      [] opcode = 239 -> 47
      [] opcode = 247 -> 48
      [] opcode = 255 -> 72

\* breakpoint_lookahead: the destination of the jump-class opcode at pc, for
\* JR ((pc as i32) + ((offset as i8) as i32)) as u16.
LookaheadJumpTarget(next_opcode) ==
    IF next_opcode \in JR
    THEN LET offset == read_byte(W16(pc + 1))
         IN W16(pc + (IF offset >= 128 THEN offset - 256 ELSE offset))
    ELSE IF next_opcode \in JP \cup CALL
    THEN Word(read_byte(W16(pc + 2)), read_byte(W16(pc + 1)))
    ELSE IF next_opcode \in RET
    THEN Word(read_byte(W16(sp + 1)), read_byte(sp))
    ELSE LookaheadRst(next_opcode)

\* breakpoint_lookahead: the address the opcode at pc reads, None if none
LookaheadReadAddress(next_opcode) ==
    IF next_opcode \in READS
    THEN IF next_opcode = 10 THEN RegBC(registers)
         ELSE IF next_opcode = 26 THEN RegDE(registers)
         ELSE IF next_opcode = 240 THEN 65280 + read_byte(W16(pc + 1))
         ELSE IF next_opcode = 242 THEN 65280 + registers.c
         ELSE IF next_opcode = 250
         THEN Word(read_byte(W16(pc + 2)), read_byte(W16(pc + 1)))
         ELSE RegHL(registers)
    ELSE IF next_opcode = 203 /\ read_byte(W16(pc + 1)) \in READ_AT_HL_EXTENDED
    THEN RegHL(registers)
    ELSE None

\* breakpoint_lookahead: the address the opcode at pc writes, None if none
LookaheadWriteAddress(next_opcode) ==
    IF next_opcode \in WRITES
    THEN IF next_opcode \in WRITE_AT_HL THEN RegHL(registers)
         ELSE IF next_opcode \in {8, 234}
         THEN Word(read_byte(W16(pc + 2)), read_byte(W16(pc + 1)))
         ELSE IF next_opcode = 224 THEN read_byte(W16(pc + 1)) + 65280
         ELSE IF next_opcode = 2 THEN RegBC(registers)
         ELSE IF next_opcode = 18 THEN RegDE(registers)
         ELSE 65280 + registers.c
    ELSE IF next_opcode = 203 /\ read_byte(W16(pc + 1)) \in WRITE_AT_HL_EXTENDED
    THEN RegHL(registers)
    ELSE None

\* Whether the list holds the breakpoint (binary_search is Ok)
Holds(address, access_type) ==
    address # None /\ binary_search(breakpoints, Breakpoint(address, access_type)).found

\* Gameboy::breakpoint_lookahead: the breakpoint the next instruction hits
\* (Execute at pc, then Jump, Read, Write at the address it computes), if the
\* list holds one
breakpoint_lookahead ==
    LET next_opcode == read_byte(pc)
        jump == IF next_opcode \in JUMPS THEN LookaheadJumpTarget(next_opcode) ELSE None
        read == LookaheadReadAddress(next_opcode)
        write == LookaheadWriteAddress(next_opcode)
        some(address, access_type) ==
            [found |-> TRUE, bp |-> Breakpoint(address, access_type), target |-> jump]
    IN IF Len(breakpoints) = 0
       THEN [found |-> FALSE, bp |-> Breakpoint(0, "Read"), target |-> None]
       ELSE IF Holds(pc, "Execute") THEN some(pc, "Execute")
       ELSE IF Holds(jump, "Jump") THEN some(jump, "Jump")
       ELSE IF Holds(read, "Read") THEN some(read, "Read")
       ELSE IF Holds(write, "Write") THEN some(write, "Write")
       ELSE [found |-> FALSE, bp |-> Breakpoint(0, "Read"), target |-> jump]

\* Mmu::write_byte_cpu on the memories w, for the addresses the instructions
\* below write: the cartridge's registers, work RAM, HRAM and IE
write_byte_cpu(w, address, value) ==
    IF CpuAccessGate(address) THEN w
    ELSE IF address <= 32767
    THEN [w EXCEPT !.mbc = write_byte_rom(cart, w.mbc, address, value)]
    ELSE IF InWram(address)
    THEN [w EXCEPT !.wram = Store(w.wram, WramIndexCpu(address), value)]
    ELSE IF InHram(address) THEN [w EXCEPT !.hram = Store(w.hram, address, value)]
    ELSE IF address = 65535 THEN [w EXCEPT !.ier = value]
    ELSE w

\* execute() up to the instruction body: ime takes next_ime_state, the opcode
\* is fetched (pc += 1) and emulate_hardware() is called once.  mcycles
\* counts the calls of emulate_hardware().
FetchOpcode ==
    [pc |-> W16(pc + 1), sp |-> sp, registers |-> registers, halt |-> FALSE,
     next_ime_state |-> next_ime_state, w |-> Memories, taken |-> FALSE, mcycles |-> 1]

\* read_next() and emulate_hardware(): the operand bytes are the bytes at
\* c.pc and c.pc + 1
Operand1(c) == read_byte_cpu(c.pc)
Operand2(c) == read_byte_cpu(W16(c.pc + 1))

\* _ret() without its internal delay: two machine cycles after the fetch
ret_no_delay(c) ==
    [c EXCEPT !.pc = Word(read_byte_cpu(W16(c.sp + 1)), read_byte_cpu(c.sp)),
              !.sp = W16(c.sp + 2),
              !.taken = TRUE,
              !.mcycles = c.mcycles + 2]

\* push(value): one internal delay, the high byte to sp - 1, the low byte to
\* sp - 2, sp -= 2
push(c, value) ==
    [c EXCEPT !.w = write_byte_cpu(write_byte_cpu(c.w, W16(c.sp - 1), value \div 256),
                                   W16(c.sp - 2), value % 256),
              !.sp = W16(c.sp - 2),
              !.mcycles = c.mcycles + 3]

\* _ret(): the low and the high byte from the stack, one delay, sp += 2
ret(c) ==
    [c EXCEPT !.pc = Word(read_byte_cpu(W16(c.sp + 1)), read_byte_cpu(c.sp)),
              !.sp = W16(c.sp + 2),
              !.taken = TRUE,
              !.mcycles = c.mcycles + 3]

\* jr(offset): pc -= (!offset + 1) for a negative offset, pc += offset otherwise
jr(c, offset) ==
    [c EXCEPT !.pc = IF offset >= 128 THEN W16(c.pc - (256 - offset))
                     ELSE W16(c.pc + offset),
              !.taken = TRUE]

\* rst(address): push(pc), pc = address
rst(c, address) == [push(c, c.pc) EXCEPT !.pc = address, !.taken = TRUE]

\* The condition of a conditional jump: NZ, Z, NC, C by bits 3 and 4 of the opcode
Condition(opcode, f) ==
    CASE (opcode \div 8) % 4 = 0 -> ~ZeroFlag(f)
      [] (opcode \div 8) % 4 = 1 -> ZeroFlag(f)
      [] (opcode \div 8) % 4 = 2 -> ~CarryFlag(f)
      [] (opcode \div 8) % 4 = 3 -> CarryFlag(f)

\* The T-cycle counter after mcycles calls of emulate_hardware(): the counter
\* is a field of the CPU (cpu/mod.rs) that the test harness reads through
\* get_cycle_counter(); the statement that advances it is in no file of the
\* tree, and is taken from the description of the tick, four T-cycles a call.
emulate_hardware_cycles(counter, mcycles) == counter + 4 * mcycles

\* Ticks(c, n): n more calls of emulate_hardware()
Ticks(c, n) == [c EXCEPT !.mcycles = c.mcycles + n]

\* The bodies of the instructions execute() dispatches to, on the cpu c that
\* FetchOpcode left
execute_opcode(opcode, c) ==
    CASE opcode = 0 -> c
      [] opcode = 2 ->
           Ticks([c EXCEPT !.w = write_byte_cpu(c.w, RegBC(c.registers), c.registers.a)], 1)
      [] opcode = 10 ->
           Ticks([c EXCEPT !.registers.a = read_byte_cpu(RegBC(c.registers))], 1)
      [] opcode = 24 ->
           jr(Ticks([c EXCEPT !.pc = W16(c.pc + 1)], 2), Operand1(c))
      [] opcode \in {32, 40, 48, 56} ->
           LET n == Ticks([c EXCEPT !.pc = W16(c.pc + 1)], 1)
           IN IF Condition(opcode, c.registers.f) THEN jr(Ticks(n, 1), Operand1(c)) ELSE n
      [] opcode = 118 -> [c EXCEPT !.halt = TRUE]
      [] opcode \in {192, 200, 208, 216} ->
           IF Condition(opcode, c.registers.f) THEN ret(Ticks(c, 1)) ELSE Ticks(c, 1)
      [] opcode \in {194, 202, 210, 218} ->
           LET n == Ticks([c EXCEPT !.pc = W16(c.pc + 2)], 2)
           IN IF Condition(opcode, c.registers.f)
              THEN [Ticks(n, 1) EXCEPT !.pc = Word(Operand2(c), Operand1(c)),
                                       !.taken = TRUE]
              ELSE n
      [] opcode = 195 ->
           [Ticks(c, 3) EXCEPT !.pc = Word(Operand2(c), Operand1(c)), !.taken = TRUE]
      [] opcode \in {196, 204, 212, 220} ->
           LET n == Ticks([c EXCEPT !.pc = W16(c.pc + 2)], 2)
           IN IF Condition(opcode, c.registers.f)
              THEN [push(n, n.pc) EXCEPT !.pc = Word(Operand2(c), Operand1(c)),
                                         !.taken = TRUE]
              ELSE n
      [] opcode \in RST -> rst(c, opcode - 199)
      [] opcode = 201 -> ret(c)
      [] opcode = 205 ->
           LET n == Ticks([c EXCEPT !.pc = W16(c.pc + 2)], 2)
           IN [push(n, n.pc) EXCEPT !.pc = Word(Operand2(c), Operand1(c)), !.taken = TRUE]
      [] opcode = 217 -> [ret(c) EXCEPT !.next_ime_state = TRUE]
      [] opcode = 233 -> [c EXCEPT !.pc = RegHL(c.registers), !.taken = TRUE]

\* The opcodes whose bodies execute_opcode holds
Executable ==
    {0, 2, 10, 24, 32, 40, 48, 56, 118, 192, 194, 195, 196, 200, 201, 202, 204, 205,
     208, 210, 212, 216, 217, 218, 220, 233} \cup RST

\* The steps of one run.
MaxDebugSteps == 2

\* Gameboy::debug_step: interrupt_service_routine(), which dispatches
\* nothing in these runs (no interrupt is enabled in IE), then
\* breakpoint_lookahead(), then execute(), then the lookahead's result is
\* returned.  Each call of emulate_hardware() the instruction makes moves
\* cycle_counter on by four T-cycles; the number of calls is kept in
\* dbg_event.mcycles.  The timer, the PPU and the serial port that
\* emulate_hardware() ticks are stepped by their own actions
\* (TimerEmulateHardware, PpuEmulateHardware, SerialEmulateHardware) and
\* stand still in the runs of the debugger.
DebugStep ==
    /\ engine = "Ok"
    /\ steps < MaxDebugSteps
    /\ steps' = steps + 1
    /\ ~(ime /\ ChooseInterrupt(interrupt_flag, interrupt_enable) # None)
    /\ LET result == breakpoint_lookahead
           opcode == read_byte_cpu(pc)
           c == IF halt THEN [FetchOpcode EXCEPT !.pc = pc, !.halt = TRUE]
                ELSE execute_opcode(opcode, FetchOpcode)
       IN /\ ~halt => opcode \in Executable
          /\ pc' = c.pc
          /\ sp' = c.sp
          /\ registers' = c.registers
          /\ halt' = c.halt
          /\ ime' = IF halt THEN ime ELSE next_ime_state
          /\ next_ime_state' = c.next_ime_state
          /\ mbc' = c.w.mbc
          /\ wram' = c.w.wram
          /\ hram' = c.w.hram
          /\ interrupt_enable' = c.w.ier
          /\ dbg_event' = [NoDebugEvent EXCEPT
                 !.kind = "step", !.found = result.found, !.bp = result.bp,
                 !.before = breakpoints, !.opcode = opcode, !.pc = pc,
                 !.target = result.target, !.taken = c.taken, !.mcycles = c.mcycles]
          /\ cycle_counter' = emulate_hardware_cycles(cycle_counter, c.mcycles)
    /\ UNCHANGED <<breakpoints, dbg_ops, dma_elapsed>>
    /\ UNCHANGED <<engine, cart, rtc, rom_patch, cart_ram, cart_ops, cart_event>>
    /\ UNCHANGED <<oam_dma_state, oam, vram, accesses, last_ff46, dma_event>>
    /\ UNCHANGED <<interrupt_flag, stop, stack, cpu_phase, cpu_event>>
    /\ UNCHANGED <<ppu_vars, timer_vars, serial_vars, clock_vars>>

\* DebuggerInterface::reset: cpu.reset(mode) for a DMG cartridge
\* (Registers::init_dmg, InterruptFlag::reset, InterruptEnable::reset),
\* timer.reset(), ppu.reset() and the three fields of the OAM DMA.
Reset ==
    /\ engine = "Ok"
    /\ dbg_ops < MaxDbgOps
    /\ dbg_ops' = dbg_ops + 1
    /\ registers' = RegistersInitDmg
    /\ sp' = 65534
    /\ pc' = 256
    /\ ime' = FALSE
    /\ next_ime_state' = FALSE
    /\ interrupt_flag' = 1
    /\ interrupt_enable' = 0
    /\ stop' = FALSE
    /\ halt' = FALSE
    /\ div' = 0
    /\ tima' = 0
    /\ tma' = 0
    /\ tac' = 0
    /\ tima_overflow_delay' = None
    /\ front_buffer_index' = 1
    /\ back_buffer_index' = 0
    /\ ppu_mode' = HBLANK
    /\ ppu_line' = 0
    /\ ppu_clock' = 0
    /\ oam_dma_state' = [oam_dma_state EXCEPT !.active = FALSE, !.start_address = 0,
                                              !.current_offset = 0]
    /\ dbg_event' = [NoDebugEvent EXCEPT !.kind = "reset", !.before = breakpoints]
    /\ UNCHANGED <<buffers, io_lcdc, io_stat, io_ly, io_lyc, vblank_entries,
                   tcycles_since_vblank, last_frame_len, tcycles_in_line, last_line_len>>
    /\ UNCHANGED <<timer_model, t_phase, cpu_accessed, timer_event, since_overflow,
                   tima_written>>
    /\ UNCHANGED <<stack, cpu_phase, cpu_event, steps>>
    /\ UNCHANGED <<oam, vram, wram, hram, accesses, last_ff46, dma_event>>
    /\ UNCHANGED <<cycle_counter, breakpoints, dma_elapsed>>
    /\ UNCHANGED <<serial_vars, cart_vars, clock_vars>>

\* The opcodes at 0x0100 of the programs stepped through: NOP, LD (BC),A,
\* LD A,(BC), JR and JR cc, HALT, RET cc, JP cc, JP, CALL cc, RST, RET,
\* CALL, RETI and JP (HL)
DebugOpcodes ==
    {0, 2, 10, 24, 32, 40, 118, 192, 194, 195, 196, 199, 200, 201, 202, 204, 205, 217,
     233, 239, 255}

\* The operand bytes at 0x0101 and 0x0102
Operands == {<<5, 1>>, <<254, 192>>}

\* The breakpoints added before a step: on the first instruction, on the
\* targets 0x0105 and 0x0000 of jumps, on the address LD A,(BC) reads and
\* LD (BC),A writes
StepBreakpoints ==
    {Breakpoint(256, "Execute"), Breakpoint(261, "Jump"), Breakpoint(0, "Jump"),
     Breakpoint(19, "Read"), Breakpoint(19, "Write")}

-----------------------------------------------------------------------------
\* Power-on state (DmgPpu::new, init_io_registers, Timer::new, CPU::new,
\* Registers::init_dmg, InterruptFlag::new, InterruptEnable::new, OamDmaState::new)

PpuInit ==
    /\ ppu_mode = HBLANK
    /\ ppu_line = 0
    /\ ppu_clock = 0
    /\ front_buffer_index = 1
    /\ back_buffer_index = 0
    /\ buffers = [b \in {0, 1} |-> <<>>]
    /\ io_lcdc = 145
    /\ io_stat = 133
    /\ io_ly = 0
    /\ io_lyc = 0
    /\ vblank_entries = 0
    /\ tcycles_since_vblank = -1
    /\ last_frame_len = -1
    /\ tcycles_in_line = -1
    /\ last_line_len = -1

\* The DIV values the timer runs are started from: machine-cycle aligned
\* values the free-running counter passes through, shortly before bit 3, 5, 7
\* and 9 fall.
DivStarts == {0, 8, 56, 248, 1016, 65528}

\* Timer::new(model), then div left to run up to one of DivStarts.
TimerStart(model, start) ==
    /\ timer_model = model
    /\ div = start
    /\ tima = 0
    /\ tma = 0
    /\ tac = 0
    /\ tima_overflow_delay = None
    /\ t_phase = 0
    /\ cpu_accessed = FALSE
    /\ timer_event = [kind |-> "none", inc |-> FALSE, reload |-> FALSE, after |-> -1,
                      ticks |-> 0]
    /\ since_overflow = -1
    /\ tima_written = FALSE

TimerInit == TimerStart("DMG", 0)

CpuInit ==
    /\ ime = FALSE
    /\ next_ime_state = FALSE
    /\ halt = FALSE
    /\ stop = FALSE
    /\ pc = 256
    /\ sp = 65534
    /\ interrupt_flag = 1
    /\ interrupt_enable = 0
    /\ stack = <<>>
    /\ cpu_phase = "isr"
    /\ cpu_event = NoEvent
    /\ steps = 0

DmaInit ==
    /\ oam_dma_state = [active |-> FALSE, start_address |-> 0, current_offset |-> 0,
                        current_cycle |-> 0]
    /\ oam = <<>>
    /\ vram = <<>>
    /\ wram = <<>>
    /\ hram = <<>>
    /\ accesses = 0
    /\ last_ff46 = None
    /\ dma_event = NoBusEvent

\* Serial::new, no peer connected yet
SerialInit ==
    /\ sb = SbDisconnected
    /\ sc = 0
    /\ current_bit_cycles = 0
    /\ bits_shifted = 0
    /\ data_out = 0
    /\ channels = FALSE
    /\ input_queue = <<>>
    /\ output_queue = <<>>
    /\ input_send_alive = TRUE
    /\ output_recv_alive = TRUE
    /\ serial_blocked = FALSE
    /\ since_start = -1
    /\ serial_ops = 0
    /\ serial_event = NoSerialEvent

\* The engine around the default ROM, built
CartInit ==
    /\ wall_clock = 0
    /\ latch_snapshot = [taken |-> FALSE, duration |-> DurationNew]
    /\ engine = "Ok"
    /\ cart = Cartridge("src", DefaultImage, None)
    /\ mbc = MbcNew
    /\ rtc = RtcNew(FALSE)
    /\ rom_patch = <<>>
    /\ cart_ram = <<>>
    /\ cart_ops = 0
    /\ cart_event = NoCartEvent

\* Debugger::new and CPU::new, the registers as init_dmg leaves them
DebuggerInit ==
    /\ registers = RegistersInitDmg
    /\ cycle_counter = 0
    /\ breakpoints = <<>>
    /\ dbg_ops = 0
    /\ dbg_event = NoDebugEvent
    /\ dma_elapsed = None

Init ==
    PpuInit /\ TimerInit /\ CpuInit /\ DmaInit /\ SerialInit /\ CartInit /\ DebuggerInit

\* Before Gameboy::new: no engine yet
InitCart ==
    /\ PpuInit /\ TimerInit /\ CpuInit /\ DmaInit /\ SerialInit /\ DebuggerInit
    /\ wall_clock = 0
    /\ latch_snapshot = [taken |-> FALSE, duration |-> DurationNew]
    /\ engine = "New"
    /\ cart = Cartridge("src", DefaultImage, None)
    /\ mbc = MbcNew
    /\ rtc = RtcNew(FALSE)
    /\ rom_patch = <<>>
    /\ cart_ram = <<>>
    /\ cart_ops = 0
    /\ cart_event = NoCartEvent

-----------------------------------------------------------------------------
\* The PPU ticking while the CPU switches the LCD on and off.

NextPpu ==
    \/ PpuEmulateHardware
    \/ \E value \in LcdcValues : WriteLcdc(value)

SpecPpu == Init /\ [][NextPpu]_vars

-----------------------------------------------------------------------------
\* The timer ticking while the CPU writes its registers.

TimaValues == {16, 255}
TmaValues == {126}
TacValues == 0 .. 7

NextTimer ==
    \/ TimerEmulateHardware
    \/ WriteDiv
    \/ \E value \in TimaValues : WriteTima(value)
    \/ \E value \in TmaValues : WriteTma(value)
    \/ \E value \in TacValues : WriteTac(value)

InitTimer ==
    /\ PpuInit
    /\ \E model \in {"DMG", "CGB"} : \E start \in DivStarts : TimerStart(model, start)
    /\ CpuInit
    /\ DmaInit
    /\ SerialInit
    /\ CartInit
    /\ DebuggerInit

SpecTimer == InitTimer /\ [][NextTimer]_vars

-----------------------------------------------------------------------------
\* The CPU running an arbitrary program of the modelled instructions, the
\* interrupt dispatcher called before each of them.

SpValues == {65297, 65296}
IfValues == {0, 20}
IeValues == {5, 31}

NextCpu ==
    \/ InterruptServiceRoutine
    \/ ExecuteHalted
    \/ ExecuteNop
    \/ ExecuteEi
    \/ ExecuteDi
    \/ ExecuteHalt
    \/ ExecuteStop
    \/ ExecuteReti
    \/ \E a8 \in {15, 255} : ExecuteLdhA(a8)
    \/ \E value \in SpValues : ExecuteLdSp(value)
    \/ \E value \in IfValues : ExecuteLdIf(value)
    \/ \E value \in IeValues : ExecuteLdIe(value)

SpecCpu == Init /\ [][NextCpu]_vars

-----------------------------------------------------------------------------
\* The OAM DMA controller running while the CPU reads and writes the bus.

NextDma ==
    \/ ServiceOamDmaTransfer
    \/ \E address \in CpuAddresses : CpuRead(address)
    \/ \E address \in CpuAddresses : \E value \in CpuValues : CpuWrite(address, value)
    \/ \E page \in DmaPages : CpuWrite(DMA, page)
    \/ CpuRead(DMA)

SpecDma == Init /\ [][NextDma]_vars

-----------------------------------------------------------------------------
\* The OAM DMA controller on its own (oam_dma.rs): transfers started through
\* OamDmaController::start_oam_dma at any time, serviced every T-cycle, and
\* asked through OamDmaState::should_block_cpu_access whether a CPU access
\* is blocked.

\* OamDmaController::start_oam_dma(addr_high).  The event records the address
\* the transfer that was running was reading from (None if there was none).
StartOamDma(addr_high) ==
    /\ oam_dma_state' = start_oam_dma(addr_high)
    /\ last_ff46' = addr_high
    /\ dma_event' = [kind |-> "dma_start", address |-> current_src_address(oam_dma_state),
                     value |-> addr_high]
    /\ UNCHANGED <<oam, vram, wram, hram, accesses>>
    /\ UNCHANGED <<ppu_vars, timer_vars, irq_vars, cpu_vars, ext_vars>>

\* OamDmaState::should_block_cpu_access(address), asked for a CPU access.
ShouldBlockCpuAccess(address) ==
    /\ dma_event' = [kind |-> "should_block", address |-> address,
                     value |-> IF should_block_cpu_access(oam_dma_state, address)
                               THEN 1 ELSE 0]
    /\ UNCHANGED <<oam_dma_state, oam, vram, wram, hram, accesses, last_ff46>>
    /\ UNCHANGED <<ppu_vars, timer_vars, irq_vars, cpu_vars, ext_vars>>

NextOamDma ==
    \/ \E page \in DmaPages : StartOamDma(page)
    \/ ServiceOamDmaTransfer
    \/ \E address \in CpuAddresses : ShouldBlockCpuAccess(address)

SpecOamDma == Init /\ [][NextOamDma]_vars

-----------------------------------------------------------------------------
\* An OAM DMA and a CPU that may execute HALT at any machine-cycle boundary
\* after having started it.

NextDmaHalt ==
    \/ \E page \in DmaPages : Ff46Write(page)
    \/ DmaTCycle
    \/ DmaHalt

SpecDmaHalt == Init /\ [][NextDmaHalt]_vars

-----------------------------------------------------------------------------
\* The serial port ticking while the CPU writes SB and SC and a peer sends
\* bytes and drops its channel ends.

NextSerial ==
    \/ SerialEmulateHardware
    \/ SerialRecvReturns
    \/ CreateChannels
    \/ \E value \in SbValues : WriteSb(value)
    \/ \E value \in ScValues : WriteSc(value)
    \/ \E byte \in PeerBytes : PeerSend(byte)
    \/ PeerDropSender
    \/ PeerDropReceiver

SpecSerial == Init /\ [][NextSerial]_vars

\* The engine keeps running: a call of emulate_hardware that can proceed
\* does.  Nothing is assumed of the peer.
SpecSerialLive ==
    SpecSerial /\ WF_vars(SerialEmulateHardware) /\ WF_vars(SerialRecvReturns)

-----------------------------------------------------------------------------
\* The MBC3 real-time clock: the system clock changes while the CPU writes
\* the controller's registers and reads the selected RTC register.

InitRtc ==
    /\ PpuInit /\ TimerInit /\ CpuInit /\ DmaInit /\ SerialInit /\ DebuggerInit
    /\ wall_clock = ClockStart
    /\ latch_snapshot = [taken |-> FALSE, duration |-> DurationNew]
    /\ engine = "Ok"
    /\ cart = Cartridge("src", TimerImage, None)
    /\ mbc = MbcNew
    /\ rtc = RtcNew(TRUE)
    /\ rom_patch = <<>>
    /\ cart_ram = <<>>
    /\ cart_ops = 0
    /\ cart_event = NoCartEvent

NextRtc ==
    \/ \E time \in ClockTimes : ClockSet(time)
    \/ RtcUpdateCall
    \/ \E w \in RtcWrites : RtcCpuWrite(w[1], w[2])
    \/ CartCpuRead(40960)

SpecRtc == InitRtc /\ [][NextRtc]_vars

-----------------------------------------------------------------------------
\* The breakpoint list under the debugger's add and remove commands.

NextBreakpoints ==
    \/ \E breakpoint \in BreakpointValues : AddBreakpoint(breakpoint)
    \/ \E index \in 0 .. MaxDbgOps : RemoveBreakpoint(index)

SpecBreakpoints == Init /\ [][NextBreakpoints]_vars

-----------------------------------------------------------------------------
\* The debugger stepping through a program: an engine on the 64 KiB MBC3 ROM
\* whose bytes at 0x0100..0x0102 are an instruction of DebugOpcodes and its
\* operands, the rest of bank 0 being NOPs; the user adds breakpoints, steps
\* and resets while the program may switch the ROM bank.

InitDebugger ==
    /\ PpuInit /\ TimerInit /\ CpuInit /\ DmaInit /\ SerialInit /\ DebuggerInit
    /\ wall_clock = ClockStart
    /\ latch_snapshot = [taken |-> FALSE, duration |-> DurationNew]
    /\ engine = "Ok"
    /\ cart = Cartridge("src", TimerImage, None)
    /\ mbc = MbcNew
    /\ rtc = RtcNew(TRUE)
    /\ \E opcode \in DebugOpcodes, operands \in Operands :
           rom_patch = (256 :> opcode) @@ (257 :> operands[1]) @@ (258 :> operands[2])
    /\ cart_ram = <<>>
    /\ cart_ops = 0
    /\ cart_event = NoCartEvent

NextDebugger ==
    \/ \E breakpoint \in StepBreakpoints : AddBreakpoint(breakpoint)
    \/ DebugStep
    \/ Reset
    \/ CartCpuWrite(8192, 2)

SpecDebugger == InitDebugger /\ [][NextDebugger]_vars

-----------------------------------------------------------------------------
\* The banked ROM of MBC3: the CPU writes the ROM bank register of the
\* 64 KiB (four banks) MBC3 cartridge and reads 0x4000..0x7FFF.

\* The writes to 0x2000..0x3FFF, <<address, value>>: banks 0 to 3 of the
\* image and bank 4, the first one past its end.
Mbc3BankWrites == {<<8192, 0>>, <<8192, 1>>, <<8192, 2>>, <<8192, 3>>, <<8192, 4>>}

\* The first, a middle and the last address of the banked ROM area
Mbc3RomAddresses == {16384, 24576, 32767}

NextMbc3 ==
    \/ \E w \in Mbc3BankWrites : RtcCpuWrite(w[1], w[2])
    \/ \E address \in Mbc3RomAddresses : CartCpuRead(address)

SpecMbc3 == InitRtc /\ [][NextMbc3]_vars

-----------------------------------------------------------------------------
\* An engine built from a ROM image, then read and written by the debugger
\* and the CPU.

NextCart ==
    \/ \E build \in Builds, image \in CartImages : GameboyNew(build, image[1], image[2])
    \/ \E address \in CartAddresses : ReadMemory(address)
    \/ \E address \in CartAddresses, value \in CartValues : WriteMemory(address, value)
    \/ \E address \in CartAddresses : CartCpuRead(address)
    \/ \E w \in CartCpuWrites : CartCpuWrite(w[1], w[2])

SpecCart == InitCart /\ [][NextCart]_vars

-----------------------------------------------------------------------------
\* The PPU running while the CPU reads and writes VRAM, OAM and the LCD
\* registers.  The first bus access of the CPU is the opcode fetch of the
\* first instruction, so the PPU has been ticked before the CPU reaches any
\* of them.

InitLcd ==
    /\ PpuInit
    /\ timer_model = "DMG"
    /\ div = 0
    /\ tima = 0
    /\ tma = 0
    /\ tac = 0
    /\ tima_overflow_delay = None
    /\ t_phase = 0
    /\ cpu_accessed = TRUE
    /\ timer_event = [kind |-> "none", inc |-> FALSE, reload |-> FALSE, after |-> -1,
                      ticks |-> 0]
    /\ since_overflow = -1
    /\ tima_written = FALSE
    /\ CpuInit
    /\ DmaInit
    /\ SerialInit
    /\ CartInit
    /\ DebuggerInit

NextLcd ==
    \/ LcdEmulateHardware
    \/ \E address \in LcdAddresses : LcdCpuRead(address)
    \/ \E w \in LcdWrites : LcdCpuWrite(w[1], w[2])

SpecLcd == InitLcd /\ [][NextLcd]_vars

-----------------------------------------------------------------------------
\* C1: with the LCD on throughout, two successive VBlank entries are exactly
\* 70224 T-cycles apart.
C1_FrameLength70224 == last_frame_len >= 0 => last_frame_len = 70224

\* C2 (as stated): a DIV tick, a DIV write or a TAC write increments TIMA if
\* and only if TAC.enable AND DIV[sel] was 1 before it and is 0 after it, sel
\* being DIV bit 9, 3, 5, 7 for clock select 0, 1, 2, 3.
C2_FallingEdgeRule ==
    [][LET sel(t) == CASE t % 4 = 0 -> 9 [] t % 4 = 1 -> 3
                       [] t % 4 = 2 -> 5 [] t % 4 = 3 -> 7
           input(t, d) == Bit(t, 2) = 1 /\ Bit(d, sel(t)) = 1
       IN timer_event'.kind \in {"tick", "write_div", "write_tac"}
            => (timer_event'.inc <=> (input(tac, div) /\ ~input(tac', div')))]_vars

\* C2 (amended): a DIV tick or a DIV write increments TIMA if and only if
\* TAC.enable AND DIV[sel] falls from 1 to 0 across it; a TAC write does so
\* on the DMG model, and never increments TIMA on the CGB model.
C2_FallingEdgeRuleDmgTac ==
    [][LET sel(t) == CASE t % 4 = 0 -> 9 [] t % 4 = 1 -> 3
                       [] t % 4 = 2 -> 5 [] t % 4 = 3 -> 7
           input(t, d) == Bit(t, 2) = 1 /\ Bit(d, sel(t)) = 1
           falls == input(tac, div) /\ ~input(tac', div')
       IN /\ timer_event'.kind \in {"tick", "write_div"}
               => (timer_event'.inc <=> falls)
          /\ (timer_event'.kind = "write_tac" /\ timer_model = "DMG")
               => (timer_event'.inc <=> falls)
          /\ (timer_event'.kind = "write_tac" /\ timer_model = "CGB")
               => ~timer_event'.inc
          /\ timer_event'.inc => tima' = (tima + 1) % 256]_vars

\* C2 witness: on the DMG a TAC write that drops the timer input has
\* incremented TIMA.
C2_Witness ==
    /\ timer_model = "DMG"
    /\ timer_event.kind = "write_tac"
    /\ timer_event.inc
    /\ tima = 17

\* C3: the dispatcher dispatches exactly when IME is set and IF & IE is
\* nonzero; it then chooses the lowest-numbered interrupt set in IF & IE,
\* clears exactly that bit in IF, pushes PC high byte at SP-1 then low byte
\* at SP-2, decreases SP by 2 and sets PC to the interrupt's vector.  Unless
\* a pushed byte lands on the IF register itself, IF afterwards differs from
\* IF before only in the cleared bit and in the interrupts the hardware
\* raised during the dispatch.
C3_DispatchLowestPending ==
    [][cpu_phase = "isr" =>
        LET pending == {i \in 0 .. 4 : Bit(interrupt_flag, i) = 1
                                       /\ Bit(interrupt_enable, i) = 1}
            lowest == CHOOSE i \in pending : \A j \in pending : i <= j
            vector == CASE lowest = 0 -> 64 [] lowest = 1 -> 72 [] lowest = 2 -> 80
                        [] lowest = 3 -> 88 [] lowest = 4 -> 96
            hi_at == (sp + 65535) % 65536
            lo_at == (sp + 65534) % 65536
            e == cpu_event'
            byte(a) == IF a \in DOMAIN stack' THEN stack'[a] ELSE 0
        IN /\ (e.kind = "dispatch") <=> (ime /\ pending # {})
           /\ e.kind = "dispatch" =>
                /\ e.int = lowest
                /\ e.if_cleared = interrupt_flag - 2 ^ lowest
                /\ e.writes = <<[address |-> hi_at, value |-> pc \div 256],
                                [address |-> lo_at, value |-> pc % 256]>>
                /\ sp' = lo_at
                /\ pc' = vector
                /\ (hi_at # 65295 /\ lo_at # 65295) =>
                     \A i \in 0 .. 4 :
                        Bit(interrupt_flag', i) =
                            IF i \in e.during THEN 1
                            ELSE IF i = lowest THEN 0
                            ELSE Bit(interrupt_flag, i)
                /\ (hi_at >= 65408 /\ hi_at <= 65534) => byte(hi_at) = pc \div 256
                /\ (lo_at >= 65408 /\ lo_at <= 65534) => byte(lo_at) = pc % 256]_vars

\* C3 witness: Timer was dispatched although Joypad was pending and enabled
\* as well; PC is the Timer vector, the high byte of the return address is
\* on the stack above the low byte and Joypad is still requested.
C3_Witness ==
    /\ cpu_event.kind = "dispatch"
    /\ cpu_event.int = TimerInt
    /\ pc = 80
    /\ sp = 65532
    /\ Bit(interrupt_flag, Joypad) = 1
    /\ Bit(interrupt_enable, Joypad) = 1
    /\ Bit(interrupt_flag, TimerInt) = 0
    /\ stack[65533] = 1
    /\ stack[65532] > 0

C6_OffsetNeverExceeds160 == oam_dma_state.current_offset <= 160

\* C7: the tick that loads TMA into TIMA and requests the Timer interrupt is
\* the 4th T-cycle after the overflowing increment.
C7_ReloadAfter4TCycles == timer_event.reload => timer_event.after = 4

\* C8: a bit set in IF is cleared only by the dispatch of that very
\* interrupt or by a write to the IF register; writes to IE, EI, DI, HALT,
\* requests and the dispatch of another interrupt leave it set.
C8_RequestStaysUntilDispatched ==
    [][\A i \in 0 .. 4 :
         (Bit(interrupt_flag, i) = 1 /\ Bit(interrupt_flag', i) = 0)
            => \/ (cpu_event'.kind = "dispatch" /\ cpu_event'.int = i)
               \/ cpu_event'.if_written]_vars

\* C8 witness: VBlank has been dispatched and IE, IME and the shadow IME
\* have been written since Joypad was requested, IF has not been written by
\* this step, and Joypad is still requested.
C8_Witness ==
    /\ cpu_event.kind = "dispatch"
    /\ cpu_event.int = VBlank
    /\ ~cpu_event.if_written
    /\ cpu_event.during = {}
    /\ Bit(interrupt_flag, Joypad) = 1
    /\ Bit(interrupt_flag, VBlank) = 0

\* C9: whenever LCDC bit 7 is clear the PPU is in HBlank on scanline 0.
C9_LcdOffHoldsHBlankLine0 ==
    ~LcdEnabled(io_lcdc) => (ppu_mode = HBLANK /\ ppu_line = 0 /\ io_ly = 0)

C11_Frame154LinesOf456 ==
    /\ [][ppu_line' # ppu_line => ppu_line' = (ppu_line + 1) % 154]_vars
    /\ [](last_line_len >= 0 => last_line_len = 456)
    /\ [](ppu_mode = VBLANK <=> ppu_line \in 144 .. 153)

\* C12: whenever the CPU reads STAT, bits 0-1 of the value are the PPU's
\* current mode and bit 2 tells whether the current scanline equals LYC;
\* whenever it reads LY the value is the current scanline.  This holds
\* whatever the CPU wrote to STAT, LY or LYC before.
C12_StatAndLyDerived ==
    [][(~cpu_accessed /\ cpu_accessed' /\ dma_event'.kind = "cpu_read") =>
         LET value == dma_event'.value
         IN /\ dma_event'.address = 65345 =>
                 /\ value % 4 = ModeBits(ppu_mode)
                 /\ ((value \div 4) % 2 = 1) <=> (ppu_line = io_lyc)
            /\ dma_event'.address = 65348 => value = ppu_line]_vars

\* C13: a CPU read of VRAM while the PPU is in PixelTransfer returns 0xFF
\* and a CPU write of VRAM in that mode leaves VRAM unchanged; a CPU read of
\* OAM while the PPU is in OAMSearch or PixelTransfer returns 0xFF and a CPU
\* write of OAM in those modes leaves OAM unchanged.
C13_VramOamLockedByMode ==
    [][(~cpu_accessed /\ cpu_accessed') =>
         LET e == dma_event'
             in_vram == e.address >= 32768 /\ e.address <= 40959
             in_oam == e.address >= 65024 /\ e.address <= 65183
             vram_locked == ppu_mode = TRANSFER_TO_LCD
             oam_locked == ppu_mode \in {SEARCH_OAM, TRANSFER_TO_LCD}
         IN /\ (e.kind = "cpu_read" /\ in_vram /\ vram_locked) => e.value = 255
            /\ (e.kind = "cpu_write" /\ in_vram /\ vram_locked) => vram' = vram
            /\ (e.kind = "cpu_read" /\ in_oam /\ oam_locked) => e.value = 255
            /\ (e.kind = "cpu_write" /\ in_oam /\ oam_locked) => oam' = oam]_vars

\* C14: when TIMA has been written while the overflow-reload delay was
\* pending, the overflow is cancelled: no later tick copies TMA into TIMA or
\* requests the Timer interrupt for that overflow, and TIMA keeps the
\* written value until it is next incremented.
C14_TimaWriteCancelsReload ==
    [][(timer_event'.kind = "tick" /\ tima_written) =>
         /\ ~timer_event'.reload
         /\ interrupt_flag' = interrupt_flag
         /\ (~timer_event'.inc => tima' = tima)]_vars

\* C15 (as stated): a dispatch leaves both IME and the shadow next-IME
\* cleared.
C15_DispatchClearsIme ==
    cpu_event.kind = "dispatch" => (~ime /\ ~next_ime_state)

\* C15 (amended): a dispatch clears the shadow next-IME; IME is false after
\* every instruction the handler executes before its first EI or RETI, and
\* the dispatcher dispatches nothing, whatever is pending, until the handler
\* has executed EI or RETI.
C15_NoNestedDispatch ==
    /\ [](cpu_event.kind = "dispatch" => ~next_ime_state)
    /\ []((cpu_event.kind = "exec" /\ cpu_event.masked) => ~ime)
    /\ [][cpu_event.masked => cpu_event'.kind # "dispatch"]_vars

\* C15 witness: since the last dispatch the handler has executed an
\* instruction other than EI and RETI, an enabled interrupt is pending, and
\* the dispatcher has just run without dispatching it.
C15_Witness ==
    /\ cpu_event.kind = "no_dispatch"
    /\ cpu_event.masked
    /\ cpu_event.pending
    /\ ~ime
    /\ sp = 65532

\* C16: IME is false as soon as DI has executed, and the dispatcher called
\* between DI and the next instruction dispatches nothing.
C16_DiClearsImeAtOnce ==
    /\ []((cpu_event.kind = "exec" /\ cpu_event.op = "di") => ~ime)
    /\ [][(cpu_event.kind = "exec" /\ cpu_event.op = "di" /\ cpu_phase = "isr")
            => cpu_event'.kind = "no_dispatch"]_vars

\* C17: when the dispatcher runs with IME clear and IF & IE nonzero, it
\* leaves halt and stop cleared and changes none of IF, SP and PC.
C17_PendingWakesWithoutDispatch ==
    [][(cpu_phase = "isr" /\ ~ime
          /\ \E i \in 0 .. 4 : Bit(interrupt_flag, i) = 1 /\ Bit(interrupt_enable, i) = 1)
        => /\ ~halt'
           /\ ~stop'
           /\ cpu_event'.kind = "no_dispatch"
           /\ interrupt_flag' = interrupt_flag
           /\ sp' = sp
           /\ pc' = pc]_vars

\* C18: after HALT has executed with IME=0 and no enabled interrupt pending,
\* no instruction executes until an interrupt is requested; after HALT has
\* executed with IME=1, no instruction executes until an interrupt has been
\* dispatched.
C18_HaltStallsUntilInterrupt ==
    [][cpu_event'.kind = "exec" => cpu_event.waits = "none"]_vars

\* C19: every read of IF (0xFF0F) and of IE (0xFFFF) returns a value whose
\* bits 5-7 are 1, and after a write to IF or IE the register holds bits 0-4
\* of the written value.
C19_IfIeUpperBitsReadOne ==
    /\ []((cpu_event.kind = "exec" /\ cpu_event.op = "ld_a_at_ff00_plus_a8")
            => cpu_event.value \div 32 = 7)
    /\ [][/\ cpu_event'.op = "ld_at_ffff_a" => interrupt_enable' = cpu_event'.value % 32
          /\ (cpu_event'.op = "ld_at_ff0f_a" /\ cpu_event'.during = {})
               => interrupt_flag' = cpu_event'.value % 32]_vars

\* C20: a write of P to 0xFF46 leaves the DMA active with source P * 256,
\* cycle counter 0 and byte offset 0, also when a transfer is in progress;
\* the cycle counter advances by one per T-cycle and the active flag is
\* cleared by the 648th T-cycle after the start; a read of 0xFF46 returns
\* the last value written to it.
C20_Ff46StartsAndReadsBack ==
    [][/\ (dma_event'.kind = "cpu_write" /\ dma_event'.address = 65350)
            => oam_dma_state' = [active |-> TRUE, start_address |-> dma_event'.value * 256,
                                 current_cycle |-> 0, current_offset |-> 0]
       /\ dma_event'.kind \in {"dma_copy", "dma_idle"}
            => /\ oam_dma_state'.current_cycle = oam_dma_state.current_cycle + 1
               /\ oam_dma_state'.active <=> oam_dma_state'.current_cycle < 648
       /\ (dma_event'.kind = "cpu_read" /\ dma_event'.address = 65350 /\ last_ff46 # -1)
            => dma_event'.value = last_ff46]_vars

\* C21: when an OAM DMA is started while another transfer is in its copy
\* phase, a CPU access asked about right after the start (in the new
\* transfer's start-up machine cycle) is still blocked if it goes to OAM or
\* to the bus the old transfer was reading from.
C21_RestartKeepsOldTransferBlocking ==
    [][LET old == dma_event.address
           a == dma_event'.address
           bus(x) == IF x >= 32768 /\ x <= 40959 THEN "vram"
                     ELSE IF x <= 32767 \/ (x >= 40960 /\ x <= 65023) THEN "external"
                     ELSE "internal"
       IN (/\ dma_event.kind = "dma_start" /\ old # -1
           /\ dma_event'.kind = "should_block"
           /\ ((a >= 65024 /\ a <= 65183) \/ (bus(a) # "internal" /\ bus(a) = bus(old))))
          => dma_event'.value = 1]_vars

\* C22: after a transfer is started on the internal clock, a bit is shifted
\* out every 64 T-cycles, and the eighth shift, 512 T-cycles after the start,
\* ends the transfer: the staged byte has been sent to the peer, the reply is
\* in SB, Serial is requested, SC bit 7 is clear and the counters are 0.
C22_InternalTransfer512 ==
    /\ serial_event.shifted => serial_event.after % 64 = 0
    /\ serial_event.completed =>
          /\ serial_event.kind = "emulate_hardware" => serial_event.after = 512
          /\ serial_event.reply # -1 =>
                /\ sb = serial_event.reply
                /\ output_queue # <<>>
                /\ output_queue[Len(output_queue)] = serial_event.sent
          /\ (interrupt_flag \div 8) % 2 = 1
          /\ (sc \div 128) % 2 = 0
          /\ current_bit_cycles = 0
          /\ bits_shifted = 0

\* C23: with the external clock selected every byte received from the peer
\* is swapped with SB (the previous SB goes back to the peer), Serial is
\* requested and SC bit 7 is clear afterwards; with the internal clock
\* selected a byte received from the peer does not change SB.
C23_ExternalSwapAlwaysRequests ==
    [][(serial_event'.kind = "emulate_hardware" /\ serial_event'.received # -1) =>
         IF sc % 2 = 0
         THEN /\ sb' = serial_event'.received
              /\ output_recv_alive => output_queue' = Append(output_queue, sb)
              /\ (interrupt_flag' \div 8) % 2 = 1
              /\ (sc' \div 128) % 2 = 0
         ELSE ~serial_event'.completed => sb' = sb]_vars

\* C23 as the code has it: the swap is made for every byte received on the
\* external clock, Serial is requested only if SC bit 7 was set when the
\* byte arrived (otherwise IF is left as it is), and SC bit 7 is clear
\* afterwards; on the internal clock the byte does not change SB.
C23_ExternalSwapRequestsIfArmed ==
    [][(serial_event'.kind = "emulate_hardware" /\ serial_event'.received # -1) =>
         IF sc % 2 = 0
         THEN /\ sb' = serial_event'.received
              /\ output_recv_alive => output_queue' = Append(output_queue, sb)
              /\ (sc \div 128) % 2 = 1 => (interrupt_flag' \div 8) % 2 = 1
              /\ (sc \div 128) % 2 = 0 => interrupt_flag' = interrupt_flag
              /\ (sc' \div 128) % 2 = 0
         ELSE ~serial_event'.completed => sb' = sb]_vars

\* C23 witness: SB held 0xA5 and an external transfer was armed; the peer's
\* byte 0x3C is now in SB, 0xA5 has gone back to the peer, Serial is
\* requested and SC bit 7 is clear.
C23_Witness ==
    /\ serial_event.kind = "emulate_hardware"
    /\ serial_event.received = 60
    /\ serial_event.armed /\ ~serial_event.internal
    /\ sb = 60
    /\ output_queue = <<165>>
    /\ (interrupt_flag \div 8) % 2 = 1
    /\ sc = 0

\* C24: once the peer has dropped its sender or its receiver, a call of
\* emulate_hardware that is waiting for a reply comes back, and every
\* transfer that ends from then on leaves the port disconnected with
\* SB = 0xFF.
C24_PeerDropRecovered ==
    /\ (serial_blocked /\ (~input_send_alive \/ ~output_recv_alive)) ~> ~serial_blocked
    /\ []((serial_event.completed /\ (~input_send_alive \/ ~output_recv_alive))
            => (sb = 255 /\ ~channels))

\* C25: every read, by the CPU or by the debugger, returns a byte and every
\* write completes, none aborting the engine; a read outside the ROM image or
\* outside the cartridge RAM returns 0xFF and a write outside the cartridge
\* RAM leaves it as it was.
C25_AccessesTotal ==
    cart_event.kind \in {"read_memory", "cpu_read", "write_memory", "cpu_write"} =>
        /\ engine # "Panic"
        /\ cart_event.kind \in {"read_memory", "cpu_read"} =>
              /\ cart_event.value \in 0..255
              /\ (cart_event.address <= 32767 /\ cart.mbc_type = "NONE"
                  /\ cart_event.address >= cart.rom_len) => cart_event.value = 255
              /\ (cart_event.address \in 40960..49151 /\ cart.ram_len = 0)
                     => cart_event.value = 255
        /\ (cart_event.kind \in {"write_memory", "cpu_write"}
            /\ cart_event.address \in 40960..49151 /\ cart.ram_len = 0)
               => cart_ram = <<>>

\* C26: building an engine from a ROM image succeeds or returns an error and
\* never aborts; an image shorter than 0x150 bytes, the unassigned
\* controller discriminant 0x04, the unassigned ROM-size code 0x08 and the
\* unassigned RAM-size code 0x06 each return an error.
C26_ConstructionNeverAborts ==
    cart_event.kind = "new" =>
        /\ engine \in {"Ok", "Err"}
        /\ (\/ cart_event.rom.len < 336
            \/ cart_event.rom.cart_type = 4
            \/ cart_event.rom.rom_size = 8
            \/ cart_event.rom.ram_size = 6) => engine = "Err"

\* C27: a read_memory(a) that directly follows a write_memory(a, v) returns
\* v when a lies in cartridge ROM, VRAM, cartridge RAM that the cartridge has
\* and has selected, work RAM, its echo, OAM, an I/O register, HRAM or IE, and
\* returns the value read before the write or 0xFF when a lies in the
\* unusable area or in the RAM area of a cartridge without RAM.
C27_WriteThenReadMemory ==
    [][(/\ cart_event.kind = "write_memory"
        /\ cart_event'.kind = "read_memory"
        /\ cart_event'.address = cart_event.address)
       => LET a == cart_event.address
              writable == \/ a <= 40959
                          \/ a \in 49152..65183
                          \/ a = LYC
                          \/ a >= 65408
                          \/ /\ a \in 40960..49151
                             /\ cart.ram_size > 0
                             /\ cart.mbc_type = "MBC3" => (mbc.ram_enable /\ mbc.ram_bank <= 3)
              read_only == \/ a \in 65184..65279
                           \/ a \in 40960..49151 /\ cart.ram_size = 0
          IN /\ writable => cart_event'.value = cart_event.value
             /\ read_only => cart_event'.value \in {cart_event.old, 255}]_vars

\* C28: on MBC1 and MBC3 the ROM bank register is never 0 whatever has been
\* written to the controller, and a read at 0x4000 never returns the byte of
\* bank 0 (the images hold the bank number in every byte past the header).
C28_RomBankNeverZero ==
    (engine \in {"Ok", "Panic"} /\ cart.mbc_type \in {"MBC1", "MBC3"}) =>
        /\ mbc.rom_bank # 0
        /\ (cart_event.kind \in {"read_memory", "cpu_read"} /\ cart_event.address = 16384)
               => cart_event.value # 0

\* C29: on MBC1 in mode ROM, with 0 in the ROM bank register and 0b10 in the
\* upper register, a read of 0x4000 returns the byte the ROM image holds at
\* physical offset (0x40 << 14) + 0 = 0x100000.
C29_Mbc1UpperBitsBank ==
    (/\ cart_event.kind \in {"read_memory", "cpu_read"}
     /\ cart_event.address = 16384
     /\ cart.mbc_type = "MBC1"
     /\ cart_event.before.mode = "Rom"
     /\ cart_event.before.rom_bank = 0
     /\ cart_event.before.ram_bank = 2
     /\ cart.rom_len > 1048576
     /\ cart.rom_size > 1048576)
    => cart_event.value = RomByte(cart, rom_patch, 1048576)

\* C29 witness: after 0x00 written to 0x2000 and 0x02 to 0x4000 the CPU has
\* read 0x40, the byte of bank 0x40, from 0x4000 of the 2 MiB MBC1 ROM.
C29_Witness ==
    /\ cart.mbc_type = "MBC1"
    /\ cart.rom_len = 2097152
    /\ mbc = [MbcNew EXCEPT !.rom_bank = 0, !.ram_bank = 2]
    /\ cart_event.kind = "cpu_read"
    /\ cart_event.address = 16384
    /\ cart_event.before = mbc
    /\ cart_event.value = 64
    /\ cart_ops = 2

\* C30: on MBC3, directly after the CPU has written a selector outside 0..3
\* and 8..0xC to 0x4000..0x5FFF, a read of 0xA000..0xBFFF returns 0xFF and a
\* write there changes neither the cartridge RAM nor the RTC.
C30_InvalidSelectorNoAccess ==
    [][(/\ cart.mbc_type = "MBC3"
        /\ engine = "Ok"
        /\ cart_event.kind = "cpu_write"
        /\ cart_event.address \in 16384..24575
        /\ cart_event.value \notin (0..3) \cup (8..12)
        /\ cart_event'.address \in 40960..49151)
       => /\ cart_event'.kind \in {"read_memory", "cpu_read"} => cart_event'.value = 255
          /\ cart_event'.kind \in {"write_memory", "cpu_write"}
                 => (cart_ram' = cart_ram /\ rtc' = rtc)]_vars

\* C31: once the clock has been latched, a read of RTC_S or RTC_DL returns
\* the seconds or the low byte of the days of the snapshot taken at the last write of 1 that directly
\* followed a write of 0 to 0x6000..0x7FFF, whatever has been written to the
\* latch or the registers since and however the system clock has moved.
C31_ReadsLatchedSnapshot ==
    [][(/\ cart_event'.kind = "cpu_read"
        /\ cart_event'.address \in 40960..49151
        /\ cart.mbc_type = "MBC3"
        /\ rtc.present
        /\ mbc.ram_enable
        /\ latch_snapshot.taken)
       => /\ mbc.ram_bank = 8 => cart_event'.value = latch_snapshot.duration.seconds
          /\ mbc.ram_bank = 11 => cart_event'.value = latch_snapshot.duration.days % 256]_vars

\* C32: an update of the RTC at a system time d >= 0 seconds after its
\* anchor, with the halt bit clear, advances the counters by exactly d
\* seconds (modulo 60/60/24/512), sets the day carry if the day counter
\* rolled over past 511 and moves the anchor to the system time; with the
\* halt bit set the counters stay as they are.
C32_UpdateAddsElapsed ==
    [][(cart_event'.kind = "rtc_update" /\ wall_clock - rtc.last >= 0)
       => LET d == wall_clock - rtc.last
              total == get_seconds(rtc.duration) + d
          IN IF rtc.halt
             THEN rtc'.duration = rtc.duration
             ELSE /\ rtc'.duration = DurationFrom(total)
                  /\ rtc'.last = wall_clock
                  /\ total >= 512 * 86400 => rtc'.day_carry]_vars

\* C40: for an address a in the echo 0xE000..0xFDFF, on the bus of the CPU
\* (read_byte_cpu) and on the bus of the debugger and the DMA controller
\* (read_byte, write_byte), a read returns the work-RAM byte of a - 0x2000
\* and a write stores the value in that byte and leaves every other one.
C40_EchoMirrorsWorkRam ==
    [][(engine = "Ok" /\ cart_event'.address \in 57344..65023)
       => LET a == cart_event'.address
              index == WramIndexCpu(a - 8192)
          IN /\ cart_event'.kind \in {"read_memory", "cpu_read"}
                    => cart_event'.value = Load(wram, index)
             /\ cart_event'.kind = "write_memory"
                    => /\ engine' = "Ok"
                       /\ wram' = Store(wram, index, cart_event'.value)]_vars

\* C38: on MBC3 a read of 0x4000 + o (o in 0..0x3FFF) with bank b selected
\* returns the byte the ROM image holds at b * 0x4000 + o if that offset lies
\* inside the image, and 0xFF if it lies outside.
C38_Mbc3BankedRomRead ==
    (/\ cart_event.kind = "cpu_read"
     /\ cart_event.address \in 16384..32767
     /\ cart.mbc_type = "MBC3")
    => LET physical == cart_event.before.rom_bank * ROM_BANK_SIZE
                           + (cart_event.address - 16384)
       IN cart_event.value = IF physical < cart.rom_len
                             THEN RomByte(cart, rom_patch, physical)
                             ELSE 255

\* C37: 648 T-cycles after the write to 0xFF46 the transfer is over (active
\* is clear and the CPU can use the bus again), whether the CPU has executed
\* HALT since the write or not.
C37_DmaCompletesDespiteHalt ==
    (dma_elapsed # None /\ dma_elapsed >= 648) => ~oam_dma_state.active

\* C34: the breakpoint list is strictly ordered by (address, access type),
\* so it holds no pair twice; adding a pair it holds leaves it unchanged,
\* adding another one makes it hold that pair too, and remove_breakpoint(i)
\* deletes exactly the entry at index i, or fails and changes nothing when
\* i is not an index of the list.
C34_BreakpointsOrderedSet ==
    /\ \A i \in 1 .. Len(breakpoints) - 1 :
           BreakpointCmp(breakpoints[i], breakpoints[i + 1]) < 0
    /\ LET before == dbg_event.before
           held == {before[i] : i \in 1 .. Len(before)}
           now == {breakpoints[i] : i \in 1 .. Len(breakpoints)}
       IN /\ dbg_event.kind = "add" =>
                 /\ dbg_event.bp \in held => breakpoints = before
                 /\ now = held \cup {dbg_event.bp}
          /\ dbg_event.kind = "remove" =>
                 IF dbg_event.index < Len(before)
                 THEN /\ dbg_event.ok
                      /\ dbg_event.bp = before[dbg_event.index + 1]
                      /\ Len(breakpoints) = Len(before) - 1
                      /\ \A i \in 1 .. Len(breakpoints) :
                             breakpoints[i] = before[IF i <= dbg_event.index THEN i ELSE i + 1]
                 ELSE ~dbg_event.ok /\ breakpoints = before

\* C34 witness: three breakpoints have been added, the first two on one
\* address, and remove_breakpoint(1) has just deleted the middle one.
C34_Witness ==
    /\ dbg_event.kind = "remove"
    /\ dbg_event.index = 1
    /\ dbg_event.ok
    /\ Len(dbg_event.before) = 3
    /\ dbg_event.before[1].address = dbg_event.before[2].address
    /\ Len(breakpoints) = 2

\* C33: when the lookahead of debug_step finds a breakpoint (Execute at PC,
\* or Jump, Read or Write at the address the next instruction jumps to, reads
\* or writes), the step returns it and the instruction is not executed: PC,
\* SP, the registers and memory stay as they are.
C33_BreakpointStopsStep ==
    [][(steps' = steps + 1 /\ dbg_event'.kind = "step" /\ dbg_event'.found)
       => /\ pc' = pc
          /\ sp' = sp
          /\ registers' = registers
          /\ hram' = hram
          /\ wram' = wram]_vars

C39_LookaheadTargetIsNextPc ==
    [][(/\ steps' = steps + 1
        /\ dbg_event'.kind = "step"
        /\ ~halt
        /\ Len(breakpoints) > 0
        /\ ~Holds(pc, "Execute")
        /\ dbg_event'.opcode \in JUMPS
        /\ dbg_event'.taken)
       => dbg_event'.target = pc']_vars

\* C35: a reset leaves the CPU registers, IME, halt and stop, IF and IE, the
\* timer, the PPU, the OAM DMA, the serial port, the LCD registers and the
\* registers of the memory bank controller at their power-on values, and
\* leaves the breakpoint list, the patched ROM bytes and the RAMs as they
\* are.
C35_ResetToPowerOn ==
    [][(dbg_ops' = dbg_ops + 1 /\ dbg_event'.kind = "reset")
       => /\ registers' = RegistersInitDmg /\ pc' = 256 /\ sp' = 65534
          /\ ~ime' /\ ~next_ime_state' /\ ~halt' /\ ~stop'
          /\ interrupt_flag' = 1 /\ interrupt_enable' = 0
          /\ div' = 0 /\ tima' = 0 /\ tma' = 0 /\ tac' = 0
          /\ tima_overflow_delay' = None
          /\ ppu_mode' = HBLANK /\ ppu_line' = 0 /\ ppu_clock' = 0
          /\ ~oam_dma_state'.active
          /\ sb' = SbDisconnected /\ sc' = 0
          /\ io_lcdc' = 145 /\ io_ly' = 0 /\ io_lyc' = 0
          /\ mbc' = MbcNew
          /\ breakpoints' = breakpoints
          /\ rom_patch' = rom_patch
          /\ cart_ram' = cart_ram /\ wram' = wram /\ hram' = hram /\ vram' = vram]_vars

====
